---- MODULE Spec2Model ----
(***************************************************************************)
(* my-react: the host-agnostic reconciler and hooks runtime of             *)
(* createRenderer (my-react-core), driven through the DOM host config.     *)
(*                                                                         *)
(* Fibers and hook records are JavaScript objects: they live in the arenas *)
(* `fibers` and `cells` and are referred to by their index, 0 standing for *)
(* null / undefined.  Host instances are indices into `host`, which holds  *)
(* the child list of every instance; instance 1 is the container.          *)
(* The renderer is synchronous: an external call (render or a state        *)
(* setter) runs to completion.  The run is cut into the steps of the work  *)
(* loop, the commit and the iterations of flushEffects, so that a setter   *)
(* called by an effect body (a nested cycle inside the running flush) is   *)
(* followed step by step; `stack` holds the suspended flushEffects calls.  *)
(***************************************************************************)
EXTENDS Integers, Sequences, FiniteSets, TLC

\* ---------------------------------------------------------------- bounds
\* longest child list of the rendered <div>
MaxChildren == 3
\* external render calls of a host-only run
MaxRenders == 2
\* external calls (render or setter) of a run with hooks
MaxCalls == 3
\* depth of nested flushEffects calls at which the engine's call stack is
\* exhausted (RangeError)
MaxStack == 3
\* the example effect "bump" requests an update while count < EffBound
EffBound == 1
\* longest dependency list given to useMemo / useCallback / useEffect
MaxDeps == 2
\* external render calls of a run of the memoizing component
MaxMemoRenders == 3
\* deepest nesting of arrays among the children given to createElement
MaxNest == 2
\* objects on the heap when the application last makes one or calls createElement
MaxHeap == 3

\* ------------------------------------------------------------- constants
TEXT_ELEMENT == "TEXT_ELEMENT"
rootType == "ROOT"
\* canvasHostConfig.rootType
canvasRootType == "ROOT_CANVAS"
Container == 1

VARIABLES
  fibers,          \* arena of fiber objects
  cells,           \* arena of hook objects
  host,            \* host[i]: child instances of host instance i, in order
  wipRoot, currentRoot, nextUnitOfWork, deletions,
  wipFiber, hookIndex, pendingEffects,
  pc,              \* "idle" | "work" | "flush": where the running call is
  stack,           \* suspended / running flushEffects activations
  cycle,           \* number of render cycles started so far
  calls,           \* number of external calls made so far
  log,             \* the running external call: the API calls (render and
                   \* setState), adapter calls and effect calls it has made
  result,          \* how the last external call ended: "ok" | "throw" | "overflow"
  prevRoot,        \* the root committed before currentRoot (history)
  aborted,         \* the cycles whose traversal an exception left (history)
  lastElement,     \* what createElement was last given and returned
  visited,         \* the running external call: the fibers performUnitOfWork
                   \* was applied to, in order, each with its cycle (history)
  heap,            \* the objects createElement is given and the ones it makes
  call,            \* the last createElement call on the heap: arguments, result
  active,          \* which createRenderer call made the renderer being used
  other            \* the bindings of the renderer of the other createRenderer call

vars == <<fibers, cells, host, wipRoot, currentRoot, nextUnitOfWork, deletions,
          wipFiber, hookIndex, pendingEffects, pc, stack, cycle, calls, log,
          result, prevRoot, aborted, lastElement, visited, active, other,
          heap, call>>

\* ------------------------------------------------------------- elements
FunctionTypes == {"Wrap", "App", "Memo", "Sync", "Swap", "Counter"}

Props(v, fx, children) == [v |-> v, fx |-> fx, children |-> children]

\* ---- JavaScript values passed as children: null, undefined, booleans,
\* strings, numbers, element objects and arrays
Null == [t |-> "null"]
Undef == [t |-> "undefined"]
Bool(b) == [t |-> "boolean", b |-> b]
Str(s) == [t |-> "string", s |-> s]
Num(n) == [t |-> "number", n |-> n]
Obj(e) == [t |-> "object", el |-> e]
Arr(a) == [t |-> "array", items |-> a]

\* String(text)
String(text) ==
  IF text.t = "number" THEN ToString(text.n)
  ELSE IF text.t = "string" THEN text.s
  ELSE IF text.t = "boolean" THEN (IF text.b THEN "true" ELSE "false")
  ELSE text.t

createTextElement(text) ==
  [type |-> TEXT_ELEMENT, props |-> Props(String(text), "", <<>>)]

\* what children.flat() puts in the place of children[i]: depth 1
FlatOne(children, i) ==
  IF children[i].t = "array" THEN children[i].items ELSE <<children[i]>>

RECURSIVE Flat(_, _)
Flat(children, i) ==
  IF i > Len(children) THEN <<>>
  ELSE FlatOne(children, i) \o Flat(children, i + 1)

\* child !== null && child !== undefined && child !== false
Kept(child) ==
  ~(child.t \in {"null", "undefined"} \/ (child.t = "boolean" /\ ~child.b))

\* typeof child === "object" ? child : createTextElement(child)
Normalized(child) ==
  IF child.t = "object" THEN child.el
  ELSE IF child.t = "array" THEN child
  ELSE createTextElement(child)

\* createElement(type, {v, fx}, ...children)
createElement(type, v, fx, children) ==
  LET flatChildren == Flat(children, 1)
      kept         == SelectSeq(flatChildren, Kept)
  IN [type |-> type,
      props |-> Props(v, fx, [i \in 1..Len(kept) |-> Normalized(kept[i])])]

\* children that are not arrays
Leaves ==
  {Null, Undef, Bool(FALSE), Bool(TRUE), Str("x"), Num(7),
   Obj(createElement("a", 0, "", <<>>))}

\* what stands in front of a nested array
Heads == {Null, Str("y")}

\* children nested at most d deep: a leaf, [child] or [head, child]
RECURSIVE Children(_)
Children(d) ==
  IF d = 0 THEN Leaves
  ELSE Leaves \cup {Arr(<<c>>) : c \in Children(d - 1)}
              \cup {Arr(<<h, c>>) : h \in Heads, c \in Children(d - 1)}

\* the ...children of a createElement call
ChildArgs ==
  {<<>>} \cup {<<c>> : c \in Children(MaxNest)}
         \cup {<<c, h>> : c \in Children(MaxNest), h \in Heads}

\* function Wrap() { return h("c", null, "7") }
Wrap(props) == createElement("c", 0, "", <<Str("7")>>)

HostChildTypes == {"a", "b", "Wrap"}

\* child lists of the rendered <div>: every type at most once
ChildSeqs ==
  UNION { { s \in [1..n -> HostChildTypes] :
              \A i, j \in 1..n : s[i] = s[j] => i = j } : n \in 0..MaxChildren }

AppFx == {"log", "bump", "once", "boom"}

\* what a run with hooks renders: <App v fx/> or a bare <b/>
AppRootElements ==
  { createElement("App", v, fx, <<>>) : v \in 0..1, fx \in AppFx }
    \cup { createElement("b", 0, "", <<>>) }

\* the elements of a dependency list
DepValues == {Num(1), Undef}

\* the deps argument: an array, or undefined when it is left out
DepArgs ==
  {Undef} \cup UNION { {Arr(d) : d \in [1..n -> DepValues]} : n \in 0..MaxDeps }

\* what a run on my-react-v2.js renders: <Counter v/>
CounterRootElements == { createElement("Counter", v, "", <<>>) : v \in 0..1 }

\* <Memo v={deps}/>
MemoRootElements == { createElement("Memo", deps, "", <<>>) : deps \in DepArgs }

\* components that break the rules of hooks: <Sync fx/> calls its setter
\* while it renders, <Swap v/> calls a different hook depending on v
EdgeRootElements ==
  { createElement("Sync", 0, fx, <<>>) : fx \in {"", "sync"} }
    \cup { createElement("Swap", v, "", <<>>) : v \in 0..1 }

HostRootElements ==
  { createElement("div", 0, "",
      [i \in 1..Len(s) |-> Obj(createElement(s[i], 0, "", <<>>))]) : s \in ChildSeqs }

\* --------------------------------------------------------------- fibers
\* a fiber literal that leaves parent null
NewFiberOrphan(type, props, instance, parent, alternate, hooks, effectTag) ==
  [type |-> type, props |-> props, instance |-> instance, parent |-> 0,
   child |-> 0, sibling |-> 0, alternate |-> alternate, hooks |-> hooks,
   effectTag |-> effectTag]

NewFiber(type, props, instance, parent, alternate, hooks, effectTag) ==
  [type |-> type, props |-> props, instance |-> instance, parent |-> parent,
   child |-> 0, sibling |-> 0, alternate |-> alternate, hooks |-> hooks,
   effectTag |-> effectTag]

\* a loop that stops with the new elements and leaves the old tail alone
LoopContinuesNewOnly(elements, index, oldFiber) ==
  index < Len(elements)

\* while (index < elements.length || oldFiber != null)
LoopContinues(elements, index, oldFiber) ==
  index < Len(elements) \/ oldFiber # 0

\* an UPDATE fiber that starts without an instance, like a PLACEMENT fiber
ReusedInstanceNone(oldRec) == 0

\* the instance an UPDATE fiber takes over
ReusedInstance(oldRec) == oldRec.instance

RECURSIVE ReconcileLoop(_, _, _, _, _, _, _)
ReconcileLoop(fs, dels, w, elements, index, oldFiber, prevSibling) ==
  IF ~LoopContinues(elements, index, oldFiber)
  THEN [fibers |-> fs, deletions |-> dels]
  ELSE
    LET hasEl    == index < Len(elements)
        element  == elements[index + 1]
        sameType == oldFiber # 0 /\ hasEl /\ element.type = fs[oldFiber].type
        newId    == Len(fs) + 1
        made     == sameType \/ hasEl
        newRec   == IF sameType
                    THEN NewFiber(fs[oldFiber].type, element.props,
                                  ReusedInstance(fs[oldFiber]), w, oldFiber,
                                  fs[oldFiber].hooks, "UPDATE")
                    ELSE NewFiber(element.type, element.props, 0, w, 0,
                                  <<>>, "PLACEMENT")
        fs1      == IF made THEN Append(fs, newRec) ELSE fs
        newFiber == IF made THEN newId ELSE 0
        del      == oldFiber # 0 /\ ~sameType
        fs2      == IF del
                    THEN [fs1 EXCEPT ![oldFiber].effectTag = "DELETION"]
                    ELSE fs1
        dels1    == IF del THEN Append(dels, oldFiber) ELSE dels
        oldNext  == IF oldFiber # 0 THEN fs[oldFiber].sibling ELSE 0
        fs3      == IF index = 0
                    THEN [fs2 EXCEPT ![w].child = newFiber]
                    ELSE IF newFiber # 0 /\ prevSibling # 0
                         THEN [fs2 EXCEPT ![prevSibling].sibling = newFiber]
                         ELSE fs2
    IN ReconcileLoop(fs3, dels1, w, elements, index + 1, oldNext, newFiber)

reconcileChildren(fs, dels, w, elements) ==
  ReconcileLoop(fs, dels, w, elements, 0,
                IF fs[w].alternate # 0 THEN fs[fs[w].alternate].child ELSE 0, 0)

\* DFS: child -> sibling -> parent.sibling
RECURSIVE NextSibling(_, _)
NextSibling(fs, next) ==
  IF next = 0 THEN 0
  ELSE IF fs[next].sibling # 0 THEN fs[next].sibling
  ELSE NextSibling(fs, fs[next].parent)

\* a walk that goes to the sibling before the child
NextUnitSiblingFirst(fs, fiber) ==
  IF fs[fiber].sibling # 0 THEN fs[fiber].sibling
  ELSE IF fs[fiber].child # 0 THEN fs[fiber].child
  ELSE NextSibling(fs, fs[fiber].parent)

NextUnit(fs, fiber) ==
  IF fs[fiber].child # 0 THEN fs[fiber].child ELSE NextSibling(fs, fiber)

IsFunctionComponent(type) == type \in FunctionTypes /\ type # rootType

\* ------------------------------------------------------ DOM host config
\* one adapter call or effect call, made by render cycle cyc
Entry(op, cyc, x, y) == [op |-> op, cyc |-> cyc, x |-> x, y |-> y]

Without(s, x) == SelectSeq(s, LAMBDA e : e # x)

Has(s, x) == \E i \in 1..Len(s) : s[i] = x

\* parent.appendChild(child): a node has one parent, it moves to the end
appendChild(h, parent, child) ==
  [i \in 1..Len(h) |->
     IF i = parent THEN Append(Without(h[i], child), child)
     ELSE Without(h[i], child)]

\* if (child.parentNode === parent) parent.removeChild(child)
removeChild(h, parent, child) ==
  IF parent # 0 /\ child # 0 /\ Has(h[parent], child)
  THEN [h EXCEPT ![parent] = Without(h[parent], child)]
  ELSE h

\* --------------------------------------------------- canvas host config
\* parentInstance.children.push(childInstance)
canvasAppendChild(h, parent, child) ==
  IF parent = 0 THEN h ELSE [h EXCEPT ![parent] = Append(@, child)]

\* the first index of x in s (0: none)
IndexOf(s, x) ==
  IF Has(s, x) THEN CHOOSE i \in 1..Len(s) : s[i] = x /\ \A j \in 1..(i - 1) : s[j] # x
  ELSE 0

\* idx = children.indexOf(childInstance); if (idx >= 0) children.splice(idx, 1)
canvasRemoveChild(h, parent, child) ==
  IF parent = 0 \/ IndexOf(h[parent], child) = 0 THEN h
  ELSE LET idx == IndexOf(h[parent], child)
       IN [h EXCEPT ![parent] = SubSeq(@, 1, idx - 1) \o SubSeq(@, idx + 1, Len(@))]

\* ---- the hostConfig the renderer was created with, told by the type of
\* the root above a fiber
RECURSIVE RootTypeOf(_, _)
RootTypeOf(fs, f) ==
  IF fs[f].parent = 0 THEN fs[f].type ELSE RootTypeOf(fs, fs[f].parent)

\* hostConfig.appendChild(parentInstance, fiber.instance)
hostAppendChild(fs, fiber, h, parent, child) ==
  IF RootTypeOf(fs, fiber) = canvasRootType THEN canvasAppendChild(h, parent, child)
  ELSE appendChild(h, parent, child)

\* hostConfig.removeChild(parentInstance, fiber.instance)
hostRemoveChild(fs, fiber, h, parent, child) ==
  IF RootTypeOf(fs, fiber) = canvasRootType THEN canvasRemoveChild(h, parent, child)
  ELSE removeChild(h, parent, child)

\* -------------------------------------------------------------- commit
\* the parent fiber itself, whether or not it has an instance
ParentDirect(fs, p) == p

RECURSIVE ParentWithInstance(_, _)
ParentWithInstance(fs, p) ==
  IF p = 0 THEN 0
  ELSE IF fs[p].instance # 0 THEN p
  ELSE ParentWithInstance(fs, fs[p].parent)

\* a deletion that goes on below the first host fiber and removes every
\* instance of the subtree
RECURSIVE commitDeletionAll(_, _, _, _)
commitDeletionAll(fs, st, fiber, parentInstance) ==
  IF fiber = 0 THEN st
  ELSE commitDeletionAll(fs,
         IF fs[fiber].instance # 0
         THEN [log  |-> Append(st.log, Entry("removeChild", cycle, parentInstance, fs[fiber].instance)),
               host |-> hostRemoveChild(fs, fiber, st.host, parentInstance,
                                        fs[fiber].instance)]
         ELSE st,
         fs[fiber].child, parentInstance)

RECURSIVE commitDeletion(_, _, _, _)
commitDeletion(fs, st, fiber, parentInstance) ==
  IF fiber = 0 THEN st
  ELSE IF fs[fiber].instance # 0
  THEN [log  |-> Append(st.log, Entry("removeChild", cycle, parentInstance, fs[fiber].instance)),
        host |-> hostRemoveChild(fs, fiber, st.host, parentInstance,
                                 fs[fiber].instance)]
  ELSE commitDeletion(fs, st, fs[fiber].child, parentInstance)

RECURSIVE commitWork(_, _, _)
commitWork(fs, st, fiber) ==
  IF fiber = 0 THEN st
  ELSE
    LET parentFiber    == ParentWithInstance(fs, fs[fiber].parent)
        parentInstance == IF parentFiber # 0 THEN fs[parentFiber].instance ELSE 0
        f              == fs[fiber]
    IN IF f.effectTag = "PLACEMENT" /\ f.instance # 0 /\ parentInstance # 0
       THEN LET st1 == [log  |-> Append(st.log, Entry("appendChild", cycle, parentInstance, f.instance)),
                        host |-> hostAppendChild(fs, fiber, st.host, parentInstance,
                                                 f.instance)]
            IN commitWork(fs, commitWork(fs, st1, f.child), f.sibling)
       ELSE IF f.effectTag = "UPDATE" /\ f.instance # 0 /\ f.alternate # 0
       THEN LET op  == IF f.type = TEXT_ELEMENT THEN "commitTextUpdate" ELSE "commitUpdate"
                st1 == [st EXCEPT !.log = Append(st.log, Entry(op, cycle, f.instance, 0))]
            IN commitWork(fs, commitWork(fs, st1, f.child), f.sibling)
       ELSE IF f.effectTag = "DELETION"
       THEN commitDeletion(fs, st, fiber, parentInstance)
       ELSE commitWork(fs, commitWork(fs, st, f.child), f.sibling)

RECURSIVE CommitDeletions(_, _, _, _)
CommitDeletions(fs, st, dels, i) ==
  IF i > Len(dels) THEN st
  ELSE CommitDeletions(fs, commitWork(fs, st, dels[i]), dels, i + 1)

\* the tree walk first, the deletion list after it
CommitStructureTreeFirst(fs, st, dels, root) ==
  CommitDeletions(fs, commitWork(fs, st, fs[root].child), dels, 1)

\* deletions.forEach(commitWork); commitWork(wipRoot.child)
CommitStructure(fs, st, dels, root) ==
  commitWork(fs, CommitDeletions(fs, st, dels, 1), fs[root].child)

\* --------------------------------------------------------------- hooks
NoEffect == [kind |-> "", cap |-> 0, setter |-> 0, ref |-> 0, ret |-> ""]

Cell(kind) ==
  [kind |-> kind, state |-> 0, queue |-> <<>>, current |-> 0,
   value |-> 0, effect |-> NoEffect, deps |-> <<>>, hasDeps |-> FALSE,
   cleanup |-> 0, qcycle |-> 0, runs |-> 0, acts |-> <<>>]
\* qcycle, runs and acts are history: the cycle that queued an effect record,
\* how often its effect body (its factory, for a memo record) was invoked, and
\* the actions passed to a cell's setter

\* wipFiber.alternate.hooks[hookIndex]
OldHook(rs) == IF rs.hookIndex < Len(rs.alt) THEN rs.alt[rs.hookIndex + 1] ELSE 0

\* typeof action === "function" ? action(hook.state) : action
ApplyAction(action, state) ==
  IF action.fn = "inc" THEN state + 1
  ELSE IF action.fn = "dbl" THEN 2 * state
  ELSE action.arg

RECURSIVE ApplyQueue(_, _, _)
ApplyQueue(state, queue, i) ==
  IF i > Len(queue) THEN state
  ELSE ApplyQueue(ApplyAction(queue[i], state), queue, i + 1)

\* a hook call that pushes its record and leaves the cursor where it was
PushHookNoAdvance(rs, cs, hook, out) ==
  [rs EXCEPT !.cells = cs, !.hooks = Append(rs.hooks, hook), !.out = out]

\* pushes the hook on wipFiber.hooks and advances the cursor
PushHook(rs, cs, hook, out) ==
  [rs EXCEPT !.cells = cs, !.hooks = Append(rs.hooks, hook),
             !.hookIndex = rs.hookIndex + 1, !.out = out]

\* useState without "hook.queue = []" after the fold
useStateKeepQueue(rs, initial) ==
  LET oldHook == OldHook(rs)
      hook    == IF oldHook # 0 THEN oldHook ELSE Len(rs.cells) + 1
      cs0     == IF oldHook # 0 THEN rs.cells
                 ELSE Append(rs.cells, [Cell("state") EXCEPT !.state = initial])
      cs1     == IF Len(cs0[hook].queue) > 0
                 THEN [cs0 EXCEPT ![hook].state =
                                     ApplyQueue(cs0[hook].state, cs0[hook].queue, 1)]
                 ELSE cs0
  IN PushHook(rs, cs1, hook, [value |-> cs1[hook].state, setState |-> hook])

\* only the record of a useState call has a queue: with any other old record
\* hook.queue.length is a TypeError
useState(rs, initial) ==
  LET oldHook == OldHook(rs)
      hook    == IF oldHook # 0 THEN oldHook ELSE Len(rs.cells) + 1
      cs0     == IF oldHook # 0 THEN rs.cells
                 ELSE Append(rs.cells, [Cell("state") EXCEPT !.state = initial])
      cs1     == IF Len(cs0[hook].queue) > 0
                 THEN [cs0 EXCEPT ![hook].state =
                                     ApplyQueue(cs0[hook].state, cs0[hook].queue, 1),
                                  ![hook].queue = <<>>]
                 ELSE cs0
  IN IF oldHook # 0 /\ rs.cells[oldHook].kind # "state"
     THEN [rs EXCEPT !.threw = TRUE]
     ELSE PushHook(rs, cs1, hook, [value |-> cs1[hook].state, setState |-> hook])

\* useState of my-react-v2.js: a new hook object in every render, which takes
\* the old object's state with the old object's queue folded into it; the
\* setter it returns pushes on the new object's queue
useState_v2(rs, initial) ==
  LET oldHook == OldHook(rs)
      hook    == Len(rs.cells) + 1
      state   == IF oldHook # 0
                 THEN ApplyQueue(rs.cells[oldHook].state, rs.cells[oldHook].queue, 1)
                 ELSE initial
  IN IF oldHook # 0 /\ rs.cells[oldHook].kind # "state"
     THEN [rs EXCEPT !.threw = TRUE]
     ELSE PushHook(rs, Append(rs.cells, [Cell("state") EXCEPT !.state = state]),
                   hook, [value |-> state, setState |-> hook])

\* useRef that makes a new record in every render
useRefFresh(rs, initialValue) ==
  PushHook(rs, Append(rs.cells, [Cell("ref") EXCEPT !.current = initialValue]),
           Len(rs.cells) + 1, Len(rs.cells) + 1)

useRef(rs, initialValue) ==
  LET oldHook == OldHook(rs)
      hook    == IF oldHook # 0 THEN oldHook ELSE Len(rs.cells) + 1
      cs0     == IF oldHook # 0 THEN rs.cells
                 ELSE Append(rs.cells, [Cell("ref") EXCEPT !.current = initialValue])
  IN PushHook(rs, cs0, hook, hook)

\* array[i], undefined beyond the end
At(array, i) == IF i <= Len(array) THEN array[i] ELSE Undef

\* deps.some((dep, i) => !Object.is(dep, oldHook.deps[i]))
SomeDepDiffers(deps, oldDeps) ==
  \E i \in 1..Len(deps) : deps[i] # At(oldDeps, i)

\* a missing list taken for the empty one: (deps || []).some(...)
HasChangedEmptyList(cs, oldHook, deps, hasDeps) ==
  IF oldHook # 0 /\ cs[oldHook].hasDeps
  THEN SomeDepDiffers(deps, cs[oldHook].deps)
  ELSE TRUE

\* hasChanged of useMemo / useEffect; oldHook.deps is an array exactly when
\* the old hook is a memo or effect record
HasChanged(cs, oldHook, deps, hasDeps) ==
  IF oldHook # 0 /\ cs[oldHook].hasDeps
  THEN IF hasDeps THEN SomeDepDiffers(deps, cs[oldHook].deps) ELSE TRUE
  ELSE TRUE

useEffect(rs, effect, deps, hasDeps) ==
  LET oldHook    == OldHook(rs)
      hasChanged == HasChanged(rs.cells, oldHook, deps, hasDeps)
      hook       == Len(rs.cells) + 1
      rec        == [Cell("effect") EXCEPT
                       !.effect  = effect,
                       !.deps    = IF hasDeps THEN deps ELSE <<>>,
                       !.hasDeps = TRUE,
                       !.cleanup = IF oldHook # 0 THEN rs.cells[oldHook].cleanup ELSE 0,
                       !.qcycle  = IF hasChanged THEN cycle ELSE 0]
      rs1        == PushHook(rs, Append(rs.cells, rec), hook, 0)
  IN IF hasChanged THEN [rs1 EXCEPT !.pend = Append(rs.pend, hook)] ELSE rs1

\* factory stands for the value factory() returns
useMemo(rs, factory, deps, hasDeps) ==
  LET oldHook    == OldHook(rs)
      hasChanged == HasChanged(rs.cells, oldHook, deps, hasDeps)
      hook       == Len(rs.cells) + 1
      rec        == [Cell("memo") EXCEPT
                       !.value   = IF hasChanged THEN factory
                                   ELSE rs.cells[oldHook].value,
                       !.deps    = IF hasChanged
                                   THEN (IF hasDeps THEN deps ELSE <<>>)
                                   ELSE rs.cells[oldHook].deps,
                       !.hasDeps = TRUE,
                       !.runs    = IF hasChanged THEN 1 ELSE 0]
  IN PushHook(rs, Append(rs.cells, rec), hook, rec.value)

\* useMemo(() => callback, deps)
useCallback(rs, callback, deps, hasDeps) == useMemo(rs, callback, deps, hasDeps)

\* ----------------------------------------------------- example component
\* function App(props) {
\*   const [count, setCount] = useState(0)
\*   const renderCount = useRef(0);  renderCount.current++
\*   const fired = useRef(0)
\*   useEffect(() => { E1(props.fx); return () => {} }, [count, props.v])
\*   useEffect(() => (props.v === 0 ? () => {} : undefined), [props.v])
\*   if (props.fx === "boom") throw ...
\*   return h("p", { v: count }, renderCount.current, fired.current)
\* }
\* E1: "bump": if (count < EffBound) setCount(c => c + 1)
\*     "once": if (fired.current === 0) { fired.current = 1; setCount(c => c + 1) }
App(rs, props) ==
  LET s1    == useState(rs, 0)
      count == s1.out.value
      s2    == useRef(s1, 0)
      rc    == s2.out
      s2w   == [s2 EXCEPT !.cells[rc].current = @ + 1]
      s3    == useRef(s2w, 0)
      e1    == [kind |-> props.fx, cap |-> count, setter |-> s1.out.setState,
                ref |-> s3.out, ret |-> "function"]
      s4    == useEffect(s3, e1, <<Num(count), Num(props.v)>>, TRUE)
      e2    == [NoEffect EXCEPT !.kind = "log",
                  !.ret = IF props.v = 0 THEN "function" ELSE "undefined"]
      s5    == useEffect(s4, e2, <<Num(props.v)>>, TRUE)
  IN [s5 EXCEPT !.threw = (props.fx = "boom"),
                !.out = createElement("p", count, "",
                          <<Num(s5.cells[rc].current),
                            Num(s5.cells[s3.out].current)>>)]

\* function Memo(props) {
\*   const computed = useMemo(() => ({}), props.v)
\*   const increment = useCallback(() => {}, props.v)
\*   useEffect(() => () => {}, props.v)
\*   return h("p", null)
\* }
\* the object and the two functions made by a render are named by its cycle
Memo(rs, props) ==
  LET hasDeps == props.v.t = "array"
      deps    == IF hasDeps THEN props.v.items ELSE <<>>
      s1      == useMemo(rs, cycle, deps, hasDeps)
      s2      == useCallback(s1, cycle, deps, hasDeps)
      s3      == useEffect(s2, [NoEffect EXCEPT !.kind = "log", !.ret = "function"],
                           deps, hasDeps)
  IN [s3 EXCEPT !.out = createElement("p", 0, "", <<>>)]

\* function Sync(props) {
\*   const [n, setN] = useState(0)
\*   if (props.fx === "sync" && n < 1) setN(c => c + 1)
\*   return h("p", { v: n })
\* }
\* rs.sync is the setter the body calls before it returns (0: none)
Sync(rs, props) ==
  LET s1 == useState(rs, 0)
  IN IF s1.threw THEN s1
     ELSE [s1 EXCEPT
             !.sync = IF props.fx = "sync" /\ s1.out.value < 1
                      THEN s1.out.setState ELSE 0,
             !.out = createElement("p", s1.out.value, "", <<>>)]

\* function Swap(props) {
\*   if (props.v === 0) useState(0); else useRef(0)
\*   return h("p", null)
\* }
Swap(rs, props) ==
  LET s1 == IF props.v = 0 THEN useState(rs, 0) ELSE useRef(rs, 0)
  IN IF s1.threw THEN s1 ELSE [s1 EXCEPT !.out = createElement("p", 0, "", <<>>)]

\* the counter of the example application, on my-react-v2.js:
\* function Counter() {
\*   const [count, setCount] = useState(0)
\*   const increment = useCallback(() => { setCount(c => c + 1) }, [])
\*   return h("button", { onClick: increment, v: count })
\* }
\* the callback is named by the hook object whose setter it calls
Counter(rs, props) ==
  LET s1 == useState_v2(rs, 0)
      s2 == useCallback(s1, s1.out.setState, <<>>, TRUE)
  IN IF s1.threw THEN s1
     ELSE [s2 EXCEPT !.out = createElement("button", s1.out.value, "", <<>>)]

\* fiber.type(fiber.props || {})
Component(type, rs, props) ==
  IF type = "App" THEN App(rs, props)
  ELSE IF type = "Memo" THEN Memo(rs, props)
  ELSE IF type = "Sync" THEN Sync(rs, props)
  ELSE IF type = "Swap" THEN Swap(rs, props)
  ELSE IF type = "Counter" THEN Counter(rs, props)
  ELSE [rs EXCEPT !.out = Wrap(props)]

\* ------------------------------------------------------------- actions
\* the bindings a createRenderer call starts with, and the history kept of them
createRenderer ==
  [fibers |-> <<>>, cells |-> <<>>, wipRoot |-> 0, currentRoot |-> 0,
   nextUnitOfWork |-> 0, deletions |-> <<>>, wipFiber |-> 0, hookIndex |-> 0,
   pendingEffects |-> <<>>, cycle |-> 0, prevRoot |-> 0, aborted |-> {}]

Init ==
  /\ active = 1 /\ other = createRenderer /\ heap = <<>> /\ call = <<>>
  /\ fibers = <<>> /\ cells = <<>> /\ host = << <<>> >>
  /\ wipRoot = 0 /\ currentRoot = 0 /\ nextUnitOfWork = 0 /\ deletions = <<>>
  /\ wipFiber = 0 /\ hookIndex = 0 /\ pendingEffects = <<>>
  /\ pc = "idle" /\ stack = <<>> /\ cycle = 0 /\ calls = 0 /\ log = <<>>
  /\ result = "ok" /\ prevRoot = 0 /\ aborted = {} /\ lastElement = <<>>
  /\ visited = <<>>

\* render(element, container), called by the application
Render(element) ==
  /\ UNCHANGED <<active, other, heap, call>>
  /\ pc = "idle"
  /\ fibers' = Append(fibers,
       NewFiber(rootType, Props(0, "", <<element>>), Container, 0,
                currentRoot, <<>>, ""))
  /\ wipRoot' = Len(fibers) + 1
  /\ deletions' = <<>>
  /\ nextUnitOfWork' = Len(fibers) + 1
  /\ cycle' = cycle + 1 /\ calls' = calls + 1
  /\ pc' = "work" /\ result' = "ok"
  /\ log' = <<Entry("render", cycle + 1, 0, Len(fibers) + 1)>>
  /\ visited' = <<>>
  /\ UNCHANGED <<cells, host, currentRoot, wipFiber, hookIndex, pendingEffects,
                 stack, prevRoot, aborted, lastElement>>

RenderHost ==
  /\ calls < MaxRenders
  /\ \E element \in HostRootElements : Render(element)

RenderApp ==
  /\ calls < MaxCalls
  /\ \E element \in AppRootElements : Render(element)

\* h("div", null, ...children), called by the application
CreateElement ==
  /\ UNCHANGED <<active, other, heap, call>>
  /\ \E children \in ChildArgs :
       lastElement' = <<[children |-> children,
                        element |-> createElement("div", 0, "", children)]>>
  /\ UNCHANGED <<fibers, cells, host, wipRoot, currentRoot, nextUnitOfWork,
                 deletions, wipFiber, hookIndex, pendingEffects, pc, stack, cycle,
                 calls, log, result, prevRoot, aborted, visited>>

RenderEdge ==
  /\ calls < MaxCalls
  /\ \E element \in EdgeRootElements : Render(element)

RenderCounter ==
  /\ calls < MaxCalls
  /\ \E element \in CounterRootElements : Render(element)

RenderMemo ==
  /\ calls < MaxMemoRenders
  /\ \E element \in MemoRootElements : Render(element)

\* _rerenderRoot() starting from an empty root, as the first render does
rerenderRootFresh(fs) ==
  IF currentRoot = 0 \/ fs[currentRoot].instance = 0
  THEN [started |-> FALSE, fibers |-> fs, wipRoot |-> wipRoot,
        deletions |-> deletions, nextUnitOfWork |-> nextUnitOfWork]
  ELSE [started |-> TRUE,
        fibers |-> Append(fs,
          NewFiber(fs[currentRoot].type, fs[currentRoot].props,
                   fs[currentRoot].instance, 0, 0, <<>>, "")),
        wipRoot |-> Len(fs) + 1, deletions |-> <<>>,
        nextUnitOfWork |-> Len(fs) + 1]

\* _rerenderRoot(): the renderer variables it assigns
rerenderRoot(fs) ==
  IF currentRoot = 0 \/ fs[currentRoot].instance = 0
  THEN [started |-> FALSE, fibers |-> fs, wipRoot |-> wipRoot,
        deletions |-> deletions, nextUnitOfWork |-> nextUnitOfWork]
  ELSE [started |-> TRUE,
        fibers |-> Append(fs,
          NewFiber(fs[currentRoot].type, fs[currentRoot].props,
                   fs[currentRoot].instance, 0, currentRoot, <<>>, "")),
        wipRoot |-> Len(fs) + 1, deletions |-> <<>>,
        nextUnitOfWork |-> Len(fs) + 1]

\* hook.queue.push(action)
PushAction(cs, hook, action) ==
  [cs EXCEPT ![hook].queue = Append(@, action), ![hook].acts = Append(@, action)]

SetterActions == {[fn |-> "inc", arg |-> 0], [fn |-> "dbl", arg |-> 0],
                  [fn |-> "set", arg |-> 5]}

StateCells == {c \in 1..Len(cells) : cells[c].kind = "state"}

\* setState(action), called by the application while the renderer is idle
SetState ==
  /\ UNCHANGED <<active, other, heap, call>>
  /\ pc = "idle" /\ calls < MaxCalls
  /\ \E hook \in StateCells, action \in SetterActions :
       LET rr == rerenderRoot(fibers)
       IN /\ cells' = PushAction(cells, hook, action)
          /\ fibers' = rr.fibers /\ wipRoot' = rr.wipRoot
          /\ deletions' = rr.deletions /\ nextUnitOfWork' = rr.nextUnitOfWork
          /\ cycle' = IF rr.started THEN cycle + 1 ELSE cycle
          /\ pc' = IF rr.started THEN "work" ELSE "idle"
          /\ log' = <<Entry("setState", IF rr.started THEN cycle + 1 ELSE 0, hook,
                            IF rr.started THEN rr.wipRoot ELSE 0)>>
  /\ calls' = calls + 1 /\ result' = "ok" /\ visited' = <<>>
  /\ UNCHANGED <<host, currentRoot, wipFiber, hookIndex, pendingEffects, stack,
                 prevRoot, aborted, lastElement>>

\* hooks kept by component type: the records of the last fiber of the same
\* type that was evaluated, wherever it was in the tree
RenderStateByType(fiber) ==
  LET same == {f \in 1..Len(fibers) :
                 /\ f # fiber /\ fibers[f].type = fibers[fiber].type
                 /\ Len(fibers[f].hooks) > 0}
  IN [cells |-> cells, hooks |-> <<>>, hookIndex |-> 0, pend |-> pendingEffects,
      alt |-> IF same = {} THEN <<>>
              ELSE fibers[CHOOSE f \in same : \A g \in same : g <= f].hooks,
      out |-> 0, threw |-> FALSE, sync |-> 0]

\* wipFiber = fiber; hookIndex = 0; wipFiber.hooks = []
RenderState(fiber) ==
  [cells |-> cells, hooks |-> <<>>, hookIndex |-> 0, pend |-> pendingEffects,
   alt |-> IF fibers[fiber].alternate # 0
           THEN fibers[fibers[fiber].alternate].hooks ELSE <<>>,
   out |-> 0, threw |-> FALSE, sync |-> 0]

\* the rest of updateFunctionComponent once the body rs has run
AfterBody(fiber, rs) ==
  LET fs1 == [fibers EXCEPT ![fiber].hooks = rs.hooks]
      \* a setter called by the component body: hook.queue.push(action);
      \* _rerenderRoot()
      called == ~rs.threw /\ rs.sync # 0
      cs1 == IF called THEN PushAction(rs.cells, rs.sync, [fn |-> "inc", arg |-> 0])
             ELSE rs.cells
      rr  == rerenderRoot(fs1)
      rc  == reconcileChildren(fs1, deletions, fiber, <<rs.out>>)
  IN /\ wipFiber' = fiber /\ hookIndex' = rs.hookIndex
     /\ cells' = cs1 /\ pendingEffects' = rs.pend
     /\ IF rs.threw
        THEN \* the exception leaves workLoop and every caller above it
             /\ fibers' = fs1 /\ pc' = "idle" /\ stack' = <<>> /\ result' = "throw"
             /\ aborted' = aborted \cup {cycle}
             /\ UNCHANGED <<deletions, nextUnitOfWork, wipRoot, cycle, log>>
        ELSE IF called /\ rr.started
        THEN \* the nested workLoop runs before the body returns
             /\ fibers' = rr.fibers /\ wipRoot' = rr.wipRoot
             /\ deletions' = rr.deletions /\ nextUnitOfWork' = rr.nextUnitOfWork
             /\ cycle' = cycle + 1
             /\ log' = Append(log, Entry("setState", cycle + 1, rs.sync, rr.wipRoot))
             /\ stack' = Append(stack, [kind |-> "body", fiber |-> fiber,
                                        out |-> rs.out])
             /\ UNCHANGED <<pc, result, aborted>>
        ELSE /\ fibers' = rc.fibers /\ deletions' = rc.deletions
             /\ nextUnitOfWork' = NextUnit(rc.fibers, fiber)
             /\ log' = IF called THEN Append(log, Entry("setState", 0, rs.sync, 0))
                       ELSE log
             /\ UNCHANGED <<pc, stack, result, aborted, wipRoot, cycle>>
     /\ UNCHANGED host

updateFunctionComponent(fiber) ==
  AfterBody(fiber, Component(fibers[fiber].type, RenderState(fiber),
                             fibers[fiber].props))

\* a render phase that also attaches the new instance, as a renderer without
\* a commit phase does
CreateCallsAttaching(lg, op, inst) ==
  Append(Append(lg, Entry(op, cycle, inst, 0)), Entry("appendChild", cycle, 0, inst))

\* fiber.instance = hostConfig.createInstance(...) / createTextInstance(...)
CreateCalls(lg, op, inst) == Append(lg, Entry(op, cycle, inst, 0))

updateHostComponent(fiber) ==
  LET f      == fibers[fiber]
      create == f.instance = 0 /\ f.type # rootType
      inst   == Len(host) + 1
      op     == IF f.type = TEXT_ELEMENT THEN "createTextInstance" ELSE "createInstance"
      fs1    == IF create THEN [fibers EXCEPT ![fiber].instance = inst] ELSE fibers
      rc     == reconcileChildren(fs1, deletions, fiber, f.props.children)
  IN /\ host' = IF create THEN Append(host, <<>>) ELSE host
     /\ log' = IF create THEN CreateCalls(log, op, inst) ELSE log
     /\ fibers' = rc.fibers /\ deletions' = rc.deletions
     /\ nextUnitOfWork' = NextUnit(rc.fibers, fiber)
     /\ UNCHANGED <<cells, wipFiber, hookIndex, pendingEffects, pc, stack, result,
                    aborted, wipRoot, cycle>>

\* one iteration of workLoop's while loop
PerformUnitOfWork ==
  /\ UNCHANGED <<active, other, heap, call>>
  /\ pc = "work" /\ nextUnitOfWork # 0
  /\ IF IsFunctionComponent(fibers[nextUnitOfWork].type)
     THEN updateFunctionComponent(nextUnitOfWork)
     ELSE updateHostComponent(nextUnitOfWork)
  /\ visited' = Append(visited, [cyc |-> cycle, fiber |-> nextUnitOfWork])
  /\ UNCHANGED <<currentRoot, calls, prevRoot, lastElement>>

\* currentRoot = wipRoot, with wipRoot left pointing at the committed tree
PromoteKeepWip(root) == [currentRoot |-> root, wipRoot |-> root]

\* currentRoot = wipRoot; wipRoot = null
Promote(root) == [currentRoot |-> root, wipRoot |-> 0]

\* a commit that leaves the host hook out
FinalizeCallsSkipped(lg, inst) == lg

\* if (hostConfig.finalizeContainer && currentRoot)
\*   hostConfig.finalizeContainer(currentRoot.instance)
FinalizeCalls(lg, inst) == Append(lg, Entry("finalizeContainer", cycle, inst, 0))

\* commitRoot() up to its call of flushEffects, whose forEach is entered
CommitRoot ==
  /\ UNCHANGED <<active, other, heap, call>>
  /\ pc = "work" /\ nextUnitOfWork = 0 /\ wipRoot # 0
  /\ LET st2 == CommitStructure(fibers, [log |-> log, host |-> host],
                                deletions, wipRoot)
     IN /\ host' = st2.host
        /\ log' = FinalizeCalls(st2.log, fibers[wipRoot].instance)
  /\ currentRoot' = Promote(wipRoot).currentRoot
  /\ wipRoot' = Promote(wipRoot).wipRoot
  /\ prevRoot' = currentRoot
  /\ stack' = Append(stack, [kind |-> "flush", queue |-> pendingEffects,
                             idx |-> 1, cyc |-> cycle])
  /\ pc' = "flush"
  /\ UNCHANGED <<fibers, cells, nextUnitOfWork, deletions, wipFiber, hookIndex,
                 pendingEffects, cycle, calls, result, aborted, lastElement,
                 visited>>

Top == stack[Len(stack)]

\* whether the effect body calls its setter, given the hook objects
CallsSetter(cs, effect) ==
  \/ effect.kind = "bump" /\ effect.cap < EffBound
  \/ effect.kind = "once" /\ cs[effect.ref].current = 0

\* hook.cleanup = typeof cleanup === "function" ? cleanup : undefined
\* (a cleanup function is named by the hook whose effect body returned it)
ReturnedCleanup(cs, hook) ==
  IF cs[hook].effect.ret = "function" THEN hook ELSE 0

\* the effect body first, the stale cleanup after it
FlushCallsBodyFirst(lg, cyc, hook, carried) ==
  LET lg1 == Append(lg, Entry("effect", cyc, hook, carried))
  IN IF carried # 0 THEN Append(lg1, Entry("cleanup", cyc, hook, carried)) ELSE lg1

\* if (typeof hook.cleanup === "function") hook.cleanup(); hook.effect()
FlushCalls(lg, cyc, hook, carried) ==
  LET lg1 == IF carried # 0 THEN Append(lg, Entry("cleanup", cyc, hook, carried))
             ELSE lg
  IN Append(lg1, Entry("effect", cyc, hook, carried))

\* one iteration of flushEffects' forEach: the cleanup, then the effect body
\* up to its return or up to the setter call it makes
FlushEffect ==
  /\ UNCHANGED <<active, other, heap, call>>
  /\ pc = "flush" /\ Top.idx <= Len(Top.queue)
  /\ LET hook   == Top.queue[Top.idx]
         effect == cells[hook].effect
         log2   == FlushCalls(log, Top.cyc, hook, cells[hook].cleanup)
         cs1    == [cells EXCEPT ![hook].runs = @ + 1]
         cs2    == IF effect.kind = "once" /\ cs1[effect.ref].current = 0
                   THEN [cs1 EXCEPT ![effect.ref].current = 1]
                   ELSE cs1
     IN /\ IF ~CallsSetter(cells, effect)
           THEN /\ cells' = [cs2 EXCEPT ![hook].cleanup = ReturnedCleanup(cs2, hook)]
                /\ log' = log2
                /\ stack' = [stack EXCEPT ![Len(stack)].idx = @ + 1]
                /\ UNCHANGED <<fibers, wipRoot, deletions, nextUnitOfWork, cycle,
                               pc, result>>
           ELSE IF Len(stack) >= MaxStack
           THEN \* RangeError: Maximum call stack size exceeded
                /\ cells' = cs2 /\ stack' = <<>> /\ pc' = "idle"
                /\ result' = "overflow" /\ log' = log2
                /\ UNCHANGED <<fibers, wipRoot, deletions, nextUnitOfWork, cycle>>
           ELSE \* setCount(c => c + 1): hook.queue.push(action); _rerenderRoot()
                LET rr == rerenderRoot(fibers)
                IN /\ cells' = PushAction(cs2, effect.setter, [fn |-> "inc", arg |-> 0])
                   /\ log' = Append(log2, Entry("setState", cycle + 1,
                                                effect.setter, rr.wipRoot))
                   /\ fibers' = rr.fibers /\ wipRoot' = rr.wipRoot
                   /\ deletions' = rr.deletions
                   /\ nextUnitOfWork' = rr.nextUnitOfWork
                   /\ cycle' = cycle + 1 /\ pc' = "work"
                   /\ UNCHANGED <<stack, result>>
  /\ UNCHANGED <<host, currentRoot, wipFiber, hookIndex, pendingEffects, calls,
                 prevRoot, aborted, lastElement, visited>>

\* workLoop returns to the caller of render or _rerenderRoot: the application,
\* the effect body or the component body that called the setter; rest holds
\* the suspended callers
Return(rest) ==
  IF Len(rest) = 0
  THEN /\ pc' = "idle" /\ stack' = <<>>
       /\ UNCHANGED <<cells, fibers, deletions, nextUnitOfWork>>
  ELSE LET caller == rest[Len(rest)]
       IN IF caller.kind = "flush"
          THEN \* the effect body returns: hook.cleanup = ...; next iteration
               LET hook == caller.queue[caller.idx]
               IN /\ cells' = [cells EXCEPT
                                 ![hook].cleanup = ReturnedCleanup(cells, hook)]
                  /\ stack' = [rest EXCEPT ![Len(rest)].idx = @ + 1]
                  /\ pc' = "flush"
                  /\ UNCHANGED <<fibers, deletions, nextUnitOfWork>>
          ELSE \* the component body returns: reconcileChildren(fiber, children)
               \* and the outer workLoop goes on with the next fiber
               LET rc == reconcileChildren(fibers, deletions, caller.fiber,
                                           <<caller.out>>)
               IN /\ fibers' = rc.fibers /\ deletions' = rc.deletions
                  /\ nextUnitOfWork' = NextUnit(rc.fibers, caller.fiber)
                  /\ stack' = SubSeq(rest, 1, Len(rest) - 1)
                  /\ pc' = "work" /\ cells' = cells

\* flushEffects' forEach is over: pendingEffects = []; commitRoot and workLoop
\* return
FlushEnd ==
  /\ UNCHANGED <<active, other, heap, call>>
  /\ pc = "flush" /\ Top.idx > Len(Top.queue)
  /\ pendingEffects' = <<>>
  /\ Return(SubSeq(stack, 1, Len(stack) - 1))
  /\ UNCHANGED <<host, wipRoot, currentRoot, wipFiber, hookIndex, cycle, calls,
                 log, result, prevRoot, aborted, lastElement, visited>>

\* workLoop's loop is over and wipRoot is null: nothing is committed
WorkLoopEnd ==
  /\ UNCHANGED <<active, other, heap, call>>
  /\ pc = "work" /\ nextUnitOfWork = 0 /\ wipRoot = 0
  /\ Return(stack)
  /\ UNCHANGED <<host, wipRoot, currentRoot, wipFiber, hookIndex, pendingEffects,
                 cycle, calls, log, result, prevRoot, aborted, lastElement,
                 visited>>

\* the mounted Counter component: the child of the committed root
MountedCounters ==
  {n \in 1..Len(fibers) :
     /\ fibers[n].type = "Counter" /\ currentRoot # 0
     /\ fibers[currentRoot].child = n}

\* a click on the committed button: its onClick is the memoized increment,
\* which calls the setter it closed over: hook.queue.push(action);
\* _rerenderRoot()
Click ==
  /\ UNCHANGED <<active, other, heap, call>>
  /\ pc = "idle" /\ calls < MaxCalls
  /\ \E n \in MountedCounters :
       LET hook == cells[fibers[n].hooks[2]].value
           rr   == rerenderRoot(fibers)
       IN /\ cells' = PushAction(cells, hook, [fn |-> "inc", arg |-> 0])
          /\ fibers' = rr.fibers /\ wipRoot' = rr.wipRoot
          /\ deletions' = rr.deletions /\ nextUnitOfWork' = rr.nextUnitOfWork
          /\ cycle' = IF rr.started THEN cycle + 1 ELSE cycle
          /\ pc' = IF rr.started THEN "work" ELSE "idle"
          /\ log' = <<Entry("setState", IF rr.started THEN cycle + 1 ELSE 0, hook,
                            IF rr.started THEN rr.wipRoot ELSE 0)>>
  /\ calls' = calls + 1 /\ result' = "ok" /\ visited' = <<>>
  /\ UNCHANGED <<host, currentRoot, wipFiber, hookIndex, pendingEffects, stack,
                 prevRoot, aborted, lastElement>>

\* the renderer of my-react-v2.js used with the Counter component
NextCounter == RenderCounter \/ Click \/ PerformUnitOfWork \/ CommitRoot
                 \/ FlushEnd

SpecCounter == Init /\ [][NextCounter]_vars

\* the renderer used without hooks: host elements and a hook-free component
NextHost == RenderHost \/ PerformUnitOfWork \/ CommitRoot \/ FlushEnd

SpecHost == Init /\ [][NextHost]_vars

\* createElement on its own
NextElement == CreateElement

SpecElement == Init /\ [][NextElement]_vars

\* the renderer used with the components that break the rules of hooks
NextEdge == RenderEdge \/ SetState \/ PerformUnitOfWork \/ CommitRoot \/ FlushEnd
              \/ WorkLoopEnd

SpecEdge == Init /\ [][NextEdge]_vars

\* the renderer used with the memoizing component
NextMemo == RenderMemo \/ PerformUnitOfWork \/ CommitRoot \/ FlushEffect
              \/ FlushEnd

SpecMemo == Init /\ [][NextMemo]_vars

\* ---- createElement on a heap of objects, each with its identity
Ref(id) == [t |-> "ref", id |-> id]

ArrayObject(items) == [kind |-> "array", items |-> items]

\* a props object {v, fx} or {v, fx, children}; children is Undef when the key
\* is not there
PropsObject(v, fx, children) ==
  [kind |-> "props", v |-> v, fx |-> fx, children |-> children]

ElementObject(type, props) == [kind |-> "element", type |-> type, props |-> props]

\* a new object: the heap with it, and the reference to it
Alloc(h, object) == [heap |-> Append(h, object), id |-> Len(h) + 1]

IsArray(h, child) == child.t = "ref" /\ h[child.id].kind = "array"

\* children.flat(): depth 1, into a new array
RECURSIVE FlatItems(_, _, _)
FlatItems(h, children, i) ==
  IF i > Len(children) THEN <<>>
  ELSE (IF IsArray(h, children[i]) THEN h[children[i].id].items
        ELSE <<children[i]>>) \o FlatItems(h, children, i + 1)

\* createTextElement(text): three new objects
createTextElementAt(h, text) ==
  LET a == Alloc(h, ArrayObject(<<>>))
      p == Alloc(a.heap, PropsObject(String(text), "", Ref(a.id)))
  IN Alloc(p.heap, ElementObject(TEXT_ELEMENT, Ref(p.id)))

\* .map(child => typeof child === "object" ? child : createTextElement(child))
\* from the i-th kept child on: the heap and the mapped items
RECURSIVE MapChildren(_, _, _)
MapChildren(h, kept, i) ==
  IF i > Len(kept) THEN [heap |-> h, items |-> <<>>]
  ELSE IF kept[i].t = "ref"
       THEN LET rest == MapChildren(h, kept, i + 1)
            IN [heap |-> rest.heap, items |-> <<kept[i]>> \o rest.items]
       ELSE LET te   == createTextElementAt(h, kept[i])
                rest == MapChildren(te.heap, kept, i + 1)
            IN [heap |-> rest.heap, items |-> <<Ref(te.id)>> \o rest.items]

\* Object.assign(props, {children}): the children written into the object given
SpreadPropsInPlace(h, props, children) ==
  IF props = 0 THEN Alloc(h, PropsObject(0, "", children))
  ELSE [heap |-> [h EXCEPT ![props].children = children], id |-> props]

\* {...(props || {}), children: normalizedChildren}: a new object
SpreadProps(h, props, children) ==
  IF props = 0 THEN Alloc(h, PropsObject(0, "", children))
  ELSE Alloc(h, PropsObject(h[props].v, h[props].fx, children))

\* createElement(type, props, ...children) on the heap: props is a props
\* object or 0 for null
createElementAt(h, type, props, children) ==
  LET flatChildren == Alloc(h, ArrayObject(FlatItems(h, children, 1)))
      filtered     == Alloc(flatChildren.heap,
                        ArrayObject(SelectSeq(flatChildren.heap[flatChildren.id].items,
                                              Kept)))
      mapped       == MapChildren(filtered.heap, filtered.heap[filtered.id].items, 1)
      normalizedChildren == Alloc(mapped.heap, ArrayObject(mapped.items))
      newProps     == SpreadProps(normalizedChildren.heap, props,
                                  Ref(normalizedChildren.id))
  IN Alloc(newProps.heap, ElementObject(type, Ref(newProps.id)))

\* the values the application passes as children or puts in its arrays
HeapValues(h) ==
  {Null, Str("x")}
    \cup {Ref(i) : i \in {j \in 1..Len(h) : h[j].kind \in {"array", "element"}}}

HeapSeqs(h) ==
  {<<>>} \cup {<<a>> : a \in HeapValues(h)}
         \cup {<<a, b>> : a \in HeapValues(h), b \in HeapValues(h)}

\* the application writes an array literal
MakeArray ==
  /\ Len(heap) < MaxHeap
  /\ \E items \in HeapSeqs(heap) : heap' = Append(heap, ArrayObject(items))
  /\ UNCHANGED <<fibers, cells, host, wipRoot, currentRoot, nextUnitOfWork,
                 deletions, wipFiber, hookIndex, pendingEffects, pc, stack, cycle,
                 calls, log, result, prevRoot, aborted, lastElement, visited,
                 active, other, call>>

\* the application writes a props object literal, with a children key or not
MakeProps ==
  /\ Len(heap) < MaxHeap
  /\ \E v \in 0..1, children \in {Undef} \cup {c \in HeapValues(heap) : c.t = "ref"} :
       heap' = Append(heap, PropsObject(v, "", children))
  /\ UNCHANGED <<fibers, cells, host, wipRoot, currentRoot, nextUnitOfWork,
                 deletions, wipFiber, hookIndex, pendingEffects, pc, stack, cycle,
                 calls, log, result, prevRoot, aborted, lastElement, visited,
                 active, other, call>>

\* h("div", props, ...children), called by the application
CreateElementCall ==
  /\ Len(heap) < MaxHeap
  /\ \E props \in {0} \cup {i \in 1..Len(heap) : heap[i].kind = "props"},
        children \in HeapSeqs(heap) :
       LET made == createElementAt(heap, "div", props, children)
       IN /\ heap' = made.heap
          /\ call' = <<[props |-> props, children |-> children,
                        element |-> made.id]>>
  /\ UNCHANGED <<fibers, cells, host, wipRoot, currentRoot, nextUnitOfWork,
                 deletions, wipFiber, hookIndex, pendingEffects, pc, stack, cycle,
                 calls, log, result, prevRoot, aborted, lastElement, visited,
                 active, other>>

\* createElement called on objects the application made
NextObjects == MakeArray \/ MakeProps \/ CreateElementCall

SpecObjects == Init /\ [][NextObjects]_vars

\* the bindings of the renderer being used
Bindings ==
  [fibers |-> fibers, cells |-> cells, wipRoot |-> wipRoot,
   currentRoot |-> currentRoot, nextUnitOfWork |-> nextUnitOfWork,
   deletions |-> deletions, wipFiber |-> wipFiber, hookIndex |-> hookIndex,
   pendingEffects |-> pendingEffects, cycle |-> cycle, prevRoot |-> prevRoot,
   aborted |-> aborted]

\* bindings declared once for the module: every renderer sees the same ones
ScopeShared(own, current) == current

\* the bindings the functions returned by one createRenderer call see: the ones
\* that call declared
Scope(own, current) == own

\* the application, holding two renderers, turns from one to the other
Switch ==
  /\ pc = "idle" /\ stack = <<>>
  /\ active' = 3 - active
  /\ other' = Bindings
  /\ LET b == Scope(other, Bindings)
     IN /\ fibers' = b.fibers /\ cells' = b.cells
        /\ wipRoot' = b.wipRoot /\ currentRoot' = b.currentRoot
        /\ nextUnitOfWork' = b.nextUnitOfWork /\ deletions' = b.deletions
        /\ wipFiber' = b.wipFiber /\ hookIndex' = b.hookIndex
        /\ pendingEffects' = b.pendingEffects /\ cycle' = b.cycle
        /\ prevRoot' = b.prevRoot /\ aborted' = b.aborted
  /\ log' = <<>> /\ visited' = <<>>
  /\ UNCHANGED <<host, pc, stack, calls, result, lastElement, heap, call>>

\* what the application renders with either of its two renderers
TwoRootElements == { createElement("App", 0, fx, <<>>) : fx \in {"log", "bump", "boom"} }

RenderTwo ==
  /\ calls < MaxCalls
  /\ \E element \in TwoRootElements : Render(element)

\* two renderers rendering the App component into one container
NextTwo == RenderTwo \/ SetState \/ PerformUnitOfWork \/ CommitRoot
             \/ FlushEffect \/ FlushEnd \/ Switch

SpecTwo == Init /\ [][NextTwo]_vars

\* what a run that moves the App component renders: <App/> alone, or a <div>
\* holding <b/> and <App/> in either order
MoveRootElements ==
  LET app == createElement("App", 0, "log", <<>>)
      b   == createElement("b", 0, "", <<>>)
  IN {app, createElement("div", 0, "", <<Obj(b), Obj(app)>>),
           createElement("div", 0, "", <<Obj(app), Obj(b)>>)}

RenderMove ==
  /\ calls < MaxCalls
  /\ \E element \in MoveRootElements : Render(element)

\* the renderer used with an App component that changes its place in the tree
NextMove == RenderMove \/ SetState \/ PerformUnitOfWork \/ CommitRoot
              \/ FlushEffect \/ FlushEnd

SpecMove == Init /\ [][NextMove]_vars

\* what a run on the canvas renders: a <g> of shapes and of a component
CanvasChildTypes == {"rect", "circle", "Wrap"}

CanvasChildSeqs ==
  UNION { { s \in [1..n -> CanvasChildTypes] :
              \A i, j \in 1..n : s[i] = s[j] => i = j } : n \in 0..MaxChildren }

CanvasRootElements ==
  { createElement("g", 0, "",
      [i \in 1..Len(s) |-> Obj(createElement(s[i], 0, "", <<>>))]) :
      s \in CanvasChildSeqs }

\* render(element, canvas) of my-react-canvas.js: a new rootInstance
\* {canvas, ctx, children: []}, handed to the render of the renderer made with
\* canvasHostConfig
canvasRender(element) ==
  /\ pc = "idle"
  /\ host' = Append(host, <<>>)
  /\ fibers' = Append(fibers,
       NewFiber(canvasRootType, Props(0, "", <<element>>), Len(host) + 1, 0,
                currentRoot, <<>>, ""))
  /\ wipRoot' = Len(fibers) + 1
  /\ deletions' = <<>>
  /\ nextUnitOfWork' = Len(fibers) + 1
  /\ cycle' = cycle + 1 /\ calls' = calls + 1
  /\ pc' = "work" /\ result' = "ok"
  /\ log' = <<Entry("render", cycle + 1, 0, Len(fibers) + 1)>>
  /\ visited' = <<>>
  /\ UNCHANGED <<cells, currentRoot, wipFiber, hookIndex, pendingEffects,
                 stack, prevRoot, aborted, lastElement, active, other, heap, call>>

RenderCanvas ==
  /\ calls < MaxRenders
  /\ \E element \in CanvasRootElements : canvasRender(element)

\* the canvas renderer used without hooks
NextCanvas == RenderCanvas \/ PerformUnitOfWork \/ CommitRoot \/ FlushEnd

SpecCanvas == Init /\ [][NextCanvas]_vars

\* the renderer used with the App component
Next == RenderApp \/ SetState \/ PerformUnitOfWork \/ CommitRoot \/ FlushEffect
          \/ FlushEnd

Spec == Init /\ [][Next]_vars

\* ------------------------------------------------- reading the fiber tree
\* the i-th fiber of the sibling chain that starts at c (0 when there is none)
RECURSIVE Nth(_, _, _)
Nth(fs, c, i) ==
  IF c = 0 THEN 0 ELSE IF i = 1 THEN c ELSE Nth(fs, fs[c].sibling, i - 1)

\* the fibers of the chain starting at f together with their subtrees
RECURSIVE TreeFibers(_, _)
TreeFibers(fs, f) ==
  IF f = 0 THEN {}
  ELSE {f} \cup TreeFibers(fs, fs[f].child) \cup TreeFibers(fs, fs[f].sibling)

\* pairs <<old, new>> of fibers at the same tree position of two trees, all
\* types on the way down to them (and their own) being equal in both trees
RECURSIVE SamePosition(_, _, _)
SamePosition(fs, o, n) ==
  IF o = 0 \/ n = 0 THEN {}
  ELSE (IF fs[o].type = fs[n].type
        THEN {<<o, n>>} \cup SamePosition(fs, fs[o].child, fs[n].child)
        ELSE {})
       \cup SamePosition(fs, fs[o].sibling, fs[n].sibling)

\* the host instances nearest below a fiber, in tree order
RECURSIVE HostChildren(_, _)
HostChildren(fs, c) ==
  IF c = 0 THEN <<>>
  ELSE (IF fs[c].instance # 0 THEN <<fs[c].instance>>
        ELSE HostChildren(fs, fs[c].child))
       \o HostChildren(fs, fs[c].sibling)

\* the latest cycle has committed; another commit came before it
Committed == wipRoot = 0 /\ currentRoot # 0
CommittedTwice == Committed /\ prevRoot # 0

\* the calls of the latest cycle
CycleLog == SelectSeq(log, LAMBDA e : e.cyc = cycle)

\* the instance a logged adapter call acts on (the child of an append or
\* remove call)
Subject(e) == IF e.op \in {"appendChild", "removeChild"} THEN e.y ELSE e.x

Count(lg, ops, inst) ==
  Cardinality({i \in 1..Len(lg) : lg[i].op \in ops /\ Subject(lg[i]) = inst})

IsHostFiber(f) == ~IsFunctionComponent(f.type) /\ f.type # rootType

\* ---------------------------------------------------------------- claims

\* C1: a host element whose tag, position and ancestor types are unchanged
\* between two consecutive commits keeps its host instance: none is created
\* for it, it is neither appended nor removed, and it gets exactly one
\* commitUpdate (commitTextUpdate for text).
C1_IdentityPreserved ==
  CommittedTwice =>
    \A pr \in SamePosition(fibers, prevRoot, currentRoot) :
      LET o == fibers[pr[1]]  n == fibers[pr[2]]
      IN IsHostFiber(n) =>
           /\ n.instance # 0 /\ n.instance = o.instance
           /\ Count(CycleLog, {"createInstance", "createTextInstance",
                               "appendChild", "removeChild"}, n.instance) = 0
           /\ Count(CycleLog, {IF n.type = TEXT_ELEMENT THEN "commitTextUpdate"
                               ELSE "commitUpdate"}, n.instance) = 1
           /\ Count(CycleLog, {IF n.type = TEXT_ELEMENT THEN "commitUpdate"
                               ELSE "commitTextUpdate"}, n.instance) = 0

C1_Witness ==
  /\ CommittedTwice
  /\ \E pr \in SamePosition(fibers, prevRoot, currentRoot) :
       fibers[pr[2]].type = TEXT_ELEMENT
  /\ \E pr \in SamePosition(fibers, prevRoot, currentRoot) :
       fibers[pr[2]].type = "a" /\ fibers[pr[2]].sibling # 0
  /\ Len(deletions) > 0

\* the types of the old child chain and of the new elements of fiber n
OldChild(n, i) == Nth(fibers, fibers[fibers[n].alternate].child, i)
NewChild(n, i) == Nth(fibers, fibers[n].child, i)
InDeletions(f) == \E k \in 1..Len(deletions) : deletions[k] = f

\* C2: reconciliation is positional. For every host fiber of the committed
\* tree that had a previous fiber, at every index: equal types give an UPDATE
\* fiber linked to the old one; different types tag the old fiber DELETION,
\* put it on the deletion list and make a PLACEMENT fiber for the element; an
\* old fiber beyond the new elements is tagged DELETION and listed.
C2_PositionalDiff ==
  Committed =>
    \A n \in TreeFibers(fibers, currentRoot) :
      (~IsFunctionComponent(fibers[n].type) /\ fibers[n].alternate # 0) =>
        LET els == fibers[n].props.children
        IN \A i \in 1..(MaxChildren + 1) :
             LET old == OldChild(n, i)  new == NewChild(n, i)
             IN /\ (i <= Len(els)) =>
                     /\ new # 0 /\ fibers[new].type = els[i].type
                     /\ fibers[new].props = els[i].props
                /\ (i > Len(els)) => new = 0
                /\ (old # 0 /\ i <= Len(els) /\ fibers[old].type = els[i].type) =>
                     /\ fibers[new].effectTag = "UPDATE"
                     /\ fibers[new].alternate = old
                     /\ fibers[old].effectTag # "DELETION" /\ ~InDeletions(old)
                /\ (old # 0 /\ i <= Len(els) /\ fibers[old].type # els[i].type) =>
                     /\ fibers[old].effectTag = "DELETION" /\ InDeletions(old)
                     /\ fibers[new].effectTag = "PLACEMENT"
                     /\ fibers[new].alternate = 0
                /\ (old # 0 /\ i > Len(els)) =>
                     fibers[old].effectTag = "DELETION" /\ InDeletions(old)
                /\ (old = 0 /\ i <= Len(els)) =>
                     fibers[new].effectTag = "PLACEMENT" /\ fibers[new].alternate = 0

\* old children [a, b, Wrap] against new [a, Wrap]
C2_Witness ==
  /\ Committed
  /\ \E n \in TreeFibers(fibers, currentRoot) :
       /\ fibers[n].type = "div" /\ fibers[n].alternate # 0
       /\ Len(fibers[n].props.children) = 2
       /\ OldChild(n, 1) # 0 /\ OldChild(n, 2) # 0
       /\ fibers[OldChild(n, 1)].type = "a" /\ fibers[NewChild(n, 1)].type = "a"
       /\ fibers[NewChild(n, 1)].effectTag = "UPDATE"
       /\ fibers[OldChild(n, 2)].type = "b" /\ fibers[NewChild(n, 2)].type = "Wrap"
       /\ fibers[OldChild(n, 2)].effectTag = "DELETION"
       /\ fibers[NewChild(n, 2)].effectTag = "PLACEMENT"
       /\ OldChild(n, 3) # 0 /\ fibers[OldChild(n, 3)].type = "Wrap"
       /\ fibers[OldChild(n, 3)].effectTag = "DELETION"
       /\ Len(deletions) = 2

Mutations == {"appendChild", "removeChild", "commitUpdate", "commitTextUpdate"}

\* C8: a second render of a structurally identical element tree makes no
\* adapter mutation call.
C8_RenderIdempotent ==
  (CommittedTwice
     /\ fibers[currentRoot].props.children = fibers[prevRoot].props.children)
    => \A i \in 1..Len(CycleLog) : CycleLog[i].op \notin Mutations

\* C9: after every commit the children of every host instance are the
\* instances of the nearest host fibers below its fiber, in fiber order.
C9_HostMirrorsTree ==
  Committed =>
    \A n \in TreeFibers(fibers, currentRoot) :
      fibers[n].instance # 0 =>
        host[fibers[n].instance] = HostChildren(fibers, fibers[n].child)

\* the fold of a1..ak over v0 in call order, from the last action inwards
RECURSIVE FoldActions(_, _)
FoldActions(acts, v0) ==
  IF Len(acts) = 0 THEN v0
  ELSE ApplyAction(acts[Len(acts)], FoldActions(SubSeq(acts, 1, Len(acts) - 1), v0))

MountedApps == {n \in TreeFibers(fibers, currentRoot) : fibers[n].type = "App"}

\* the number a text node shows (no counter exceeds the number of cycles)
Shown(nodeValue) == CHOOSE n \in 0..cycle : ToString(n) = nodeValue

\* what the committed <p> of an App fiber shows: count, renderCount.current
\* and fired.current as they were read by the render
ShownCount(n)   == fibers[fibers[n].child].props.v
ShownRenders(n) == Shown(fibers[NewChild(fibers[n].child, 1)].props.v)
ShownFired(n)   == Shown(fibers[NewChild(fibers[n].child, 2)].props.v)

\* C3: when a call has returned normally, the state of a mounted useState(0)
\* cell, and the value its committed tree shows, is the left fold over 0 of
\* the actions passed to its setter, in call order, each applied once.
C3_SetterFold ==
  (pc = "idle" /\ result = "ok" /\ Committed) =>
    \A n \in MountedApps :
      LET hook == fibers[n].hooks[1]
      IN /\ cells[hook].state = FoldActions(cells[hook].acts, 0)
         /\ cells[hook].queue = <<>>
         /\ ShownCount(n) = cells[hook].state

\* render, then two setter calls from the application: c => c + 1, c => 2 * c
C3_Witness ==
  /\ pc = "idle" /\ result = "ok" /\ Committed /\ calls = 3 /\ cycle = 3
  /\ \E n \in MountedApps :
       /\ cells[fibers[n].hooks[1]].acts =
            <<[fn |-> "inc", arg |-> 0], [fn |-> "dbl", arg |-> 0]>>
       /\ ShownCount(n) = 2

\* C4: every flush invokes its effects in the order their useEffect calls
\* were reached (the order the records were made), and a carried-over
\* cleanup is called immediately before the body of its own effect.
C4_EffectOrder ==
  \A i \in 1..Len(log) :
    /\ log[i].op = "cleanup" =>
         /\ i < Len(log) /\ log[i + 1].op = "effect"
         /\ log[i + 1].x = log[i].x /\ log[i + 1].cyc = log[i].cyc
    /\ (log[i].op = "effect" /\ log[i].y # 0) =>
         i > 1 /\ log[i - 1].op = "cleanup" /\ log[i - 1].x = log[i].x
    /\ \A j \in (i + 1)..Len(log) :
         (log[i].op = "effect" /\ log[j].op = "effect" /\ log[i].cyc = log[j].cyc)
           => log[i].x < log[j].x

\* cleanup(E1), body(E1), cleanup(E2), body(E2) in one flush
C4_Witness ==
  \E i \in 1..Len(log) :
    /\ i + 3 <= Len(log)
    /\ log[i].op = "cleanup" /\ log[i + 1].op = "effect"
    /\ log[i + 2].op = "cleanup" /\ log[i + 3].op = "effect"
    /\ log[i + 1].x < log[i + 3].x /\ log[i + 1].cyc = log[i + 3].cyc

\* C5: in one cycle every removeChild comes before every appendChild,
\* commitUpdate and commitTextUpdate, and every cleanup or effect body of the
\* cycle's flush comes after the cycle's last structural adapter call.
C5_CommitOrder ==
  \A i \in 1..Len(log) : \A j \in (i + 1)..Len(log) :
    log[i].cyc = log[j].cyc =>
      /\ ~(log[i].op \in Mutations \ {"removeChild"} /\ log[j].op = "removeChild")
      /\ ~(log[i].op \in {"cleanup", "effect"} /\ log[j].op \in Mutations)

C5_Witness ==
  \E i, j, k \in 1..Len(log) :
    /\ i < j /\ j < k /\ log[i].cyc = log[j].cyc /\ log[j].cyc = log[k].cyc
    /\ log[i].op = "removeChild" /\ log[j].op = "appendChild"
    /\ log[k].op = "effect"

\* C6: the nested cycles started by effect bodies that request finitely many
\* updates terminate: no call ends with the call stack exhausted.
C6_NestedCyclesTerminate == result # "overflow"

\* C7: an effect body invoked by a cycle's flush belongs to a record queued
\* during that cycle's traversal, and is invoked once.
C7_EffectsRunOncePerCycle ==
  \A i \in 1..Len(log) :
    log[i].op = "effect" =>
      cells[log[i].x].qcycle = log[i].cyc /\ cells[log[i].x].runs <= 1

\* C10: an App that stays mounted gets the same two useRef records in the
\* next committed render; the render counter it shows has grown from the one
\* shown before (the initial value is not used again) and is the record's
\* value, and a write by an effect (fired.current = 1) is not lost.
C10_RefIdentity ==
  CommittedTwice =>
    \A pr \in SamePosition(fibers, prevRoot, currentRoot) :
      LET o == pr[1]  n == pr[2]
      IN fibers[n].type = "App" =>
           /\ fibers[n].hooks[2] = fibers[o].hooks[2]
           /\ fibers[n].hooks[3] = fibers[o].hooks[3]
           /\ ShownRenders(n) > ShownRenders(o)
           /\ ShownRenders(n) = cells[fibers[n].hooks[2]].current
           /\ ShownFired(n) >= ShownFired(o)
           /\ cells[fibers[n].hooks[3]].current >= ShownFired(n)

C10_Witness ==
  /\ CommittedTwice
  /\ \E pr \in SamePosition(fibers, prevRoot, currentRoot) :
       /\ fibers[pr[2]].type = "App"
       /\ ShownRenders(pr[2]) >= 3
       /\ ShownFired(pr[1]) = 0 /\ ShownFired(pr[2]) = 1

\* the Memo fibers at the same position of the last two committed trees, both
\* rendered with a dependency list
MemoPairs ==
  {pr \in SamePosition(fibers, prevRoot, currentRoot) :
     /\ fibers[pr[2]].type = "Memo"
     /\ fibers[pr[1]].props.v.t = "array" /\ fibers[pr[2]].props.v.t = "array"}

\* the hook record a fiber holds at a cursor position
HookOf(f, i) == cells[fibers[f].hooks[i]]

\* C11: on a re-render with a dependency list given in both renders, useMemo
\* invokes factory exactly when some element of the new list differs from
\* the element at the same index of the previous render's list; otherwise
\* useMemo and useCallback return the value of the previous render.
C11_MemoGating ==
  CommittedTwice =>
    \A pr \in MemoPairs :
      LET o == pr[1]  n == pr[2]
          differs == SomeDepDiffers(fibers[n].props.v.items, fibers[o].props.v.items)
      IN /\ (HookOf(n, 1).runs = 1) <=> differs
         /\ (HookOf(n, 2).runs = 1) <=> differs
         /\ ~differs => /\ HookOf(n, 1).value = HookOf(o, 1).value
                        /\ HookOf(n, 2).value = HookOf(o, 2).value

\* C12: a new dependency list whose length differs from the length of the
\* list in the prior record makes useMemo invoke factory and useEffect queue
\* the effect.
C12_LengthMismatch ==
  CommittedTwice =>
    \A pr \in MemoPairs :
      LET o == pr[1]  n == pr[2]
          len == Len(fibers[n].props.v.items)
      IN /\ len # Len(HookOf(o, 1).deps) => HookOf(n, 1).runs = 1
         /\ len # Len(HookOf(o, 3).deps) => HookOf(n, 3).qcycle = cycle

\* the number of log entries of one operation, and those made by one cycle
Calls(op) == Cardinality({i \in 1..Len(log) : log[i].op = op})
CallsOf(op, cyc) ==
  Cardinality({i \in 1..Len(log) : log[i].op = op /\ log[i].cyc = cyc})

\* a step in which the application calls a setter while the renderer is idle
\* and a tree is committed
SetterCallStep ==
  /\ pc = "idle" /\ currentRoot # 0
  /\ calls' = calls + 1 /\ log'[1].op = "setState"

\* what such a call has done when it enters the work loop
SetterCallStarts ==
  /\ \E hook \in StateCells :
       /\ log'[1].x = hook
       /\ Len(cells'[hook].queue) = Len(cells[hook].queue) + 1
       /\ \A c \in 1..Len(cells) : c # hook => cells'[c] = cells[c]
  /\ Len(cells') = Len(cells)
  /\ pc' = "work" /\ cycle' = cycle + 1
  /\ wipRoot' = Len(fibers) + 1 /\ nextUnitOfWork' = wipRoot'
  /\ fibers'[wipRoot'].alternate = currentRoot
  /\ fibers'[wipRoot'].instance = fibers[currentRoot].instance
  /\ fibers'[wipRoot'].props = fibers[currentRoot].props
  /\ fibers'[wipRoot'].type = fibers[currentRoot].type

\* what it has done when it returns: every setter call of the run (its own
\* and those of effect bodies) started one cycle, which committed once
SetterCallReturned ==
  (pc = "idle" /\ result = "ok" /\ Len(log) > 0 /\ log[1].op = "setState"
     /\ log[1].cyc # 0) =>
    /\ \A i \in 1..Len(log) :
         log[i].op = "setState" =>
           /\ CallsOf("setState", log[i].cyc) = 1
           /\ CallsOf("finalizeContainer", log[i].cyc) = 1
           /\ \E j \in (i + 1)..Len(log) :
                log[j].op = "finalizeContainer" /\ log[j].cyc = log[i].cyc
    /\ Calls("finalizeContainer") = Calls("setState")
    /\ wipRoot = 0 /\ nextUnitOfWork = 0

\* C13: a setter called while the renderer is idle with a committed tree
\* appends one action to its cell and starts a cycle whose root has the last
\* committed root as alternate and its instance and props; the cycle is
\* traversed and committed once before the call returns.
C13_SetterRunsOneCycle ==
  [][SetterCallStep => SetterCallStarts]_vars /\ []SetterCallReturned

\* render, then two setter calls: three cycles, the last one by the setter
C13_Witness ==
  /\ pc = "idle" /\ result = "ok" /\ calls = 3 /\ cycle = 3
  /\ log[1].op = "setState" /\ log[1].cyc = 3 /\ Calls("finalizeContainer") = 1
  /\ currentRoot = log[1].y /\ fibers[currentRoot].alternate = prevRoot

\* the root fibers made so far, one by every cycle, in the order of the cycles
Roots == {f \in 1..Len(fibers) : fibers[f].type = rootType}
RootCycle(f) == Cardinality({g \in Roots : g <= f})
LatestRoot == CHOOSE f \in Roots : \A g \in Roots : g <= f

\* a step in which render or _rerenderRoot assigns wipRoot
CycleStarts == cycle' = cycle + 1

C15_ThrowAborts ==
  /\ (pc = "idle" /\ result = "throw") =>
       /\ \A i \in 1..Len(log) :
            log[i].cyc = cycle =>
              log[i].op \notin Mutations \cup {"finalizeContainer", "effect", "cleanup"}
       /\ wipRoot # currentRoot
  /\ currentRoot # 0 => RootCycle(currentRoot) \notin aborted
  /\ (pc = "work" /\ wipRoot # 0) => fibers[wipRoot].alternate = currentRoot
  /\ \A i \in 1..Len(log) :
       log[i].op \in {"effect", "cleanup"} => cells[log[i].x].qcycle \notin aborted

\* C18: while a cycle is traversing, it has made no adapter call other than
\* createInstance and createTextInstance and has run no effect body and no
\* cleanup; the mutating adapter calls and finalizeContainer are made by the
\* commitRoot step only.
C18_RenderPhasePure ==
  /\ [](\A i \in 1..Len(log) :
          (pc = "work" /\ nextUnitOfWork # 0 /\ log[i].cyc = cycle) =>
            log[i].op \in {"render", "setState", "createInstance",
                           "createTextInstance"})
  /\ [][(/\ Len(log') > Len(log)
         /\ \E i \in (Len(log) + 1)..Len(log') :
              log'[i].op \in Mutations \cup {"finalizeContainer"})
        => (pc = "work" /\ nextUnitOfWork = 0 /\ wipRoot # 0 /\ pc' = "flush")]_vars

\* a traversal that has created instances and queued effects: nothing is
\* attached and no effect has run
C18_Witness ==
  /\ pc = "work" /\ nextUnitOfWork # 0
  /\ CallsOf("createInstance", cycle) = 1
  /\ CallsOf("createTextInstance", cycle) = 1
  /\ Len(pendingEffects) = 2 /\ host[Container] = <<>>
  /\ \A c \in 1..Len(cells) : cells[c].runs = 0

\* a step in which a setter is called while a cycle is traversing
RequestWhileTraversing ==
  /\ pc = "work" /\ nextUnitOfWork # 0
  /\ Len(log') > Len(log) /\ log'[Len(log')].op = "setState"

\* C16: a cycle requested while another cycle is traversing is rejected: no
\* cycle starts, and the work-in-progress root and the deletion list of the
\* running cycle stay as they are.
C16_ReentrantRejected ==
  [][RequestWhileTraversing =>
       /\ cycle' = cycle /\ wipRoot' = wipRoot
       /\ log'[Len(log')].cyc = 0
       /\ Len(deletions') >= Len(deletions)]_vars

\* C17: no rendered component holds, at a cursor position, a record made by
\* another hook kind than the one it called there (Swap calls useState when
\* v is 0 and useRef otherwise).
C17_HookKindChecked ==
  \A f \in 1..Len(fibers) :
    (fibers[f].type = "Swap" /\ fibers[f].child # 0) =>
      HookOf(f, 1).kind = (IF fibers[f].props.v = 0 THEN "state" ELSE "ref")

\* the children that are not arrays, at any depth, from left to right
RECURSIVE LeafOrder(_, _)
LeafOrder(children, i) ==
  IF i > Len(children) THEN <<>>
  ELSE (IF children[i].t = "array" THEN LeafOrder(children[i].items, 1)
        ELSE <<children[i]>>) \o LeafOrder(children, i + 1)

\* an entry of props.children that is a virtual element
IsElement(e) == "type" \in DOMAIN e

\* the type of an entry and, for a text element, its nodeValue
Shape(e) ==
  IF ~IsElement(e) THEN <<"array", "">>
  ELSE IF e.type = TEXT_ELEMENT THEN <<e.type, e.props.v>>
  ELSE <<e.type, "">>

Shapes(entries) == [i \in 1..Len(entries) |-> Shape(entries[i])]

\* the text a child that is wrapped has to show
TextOf(child) ==
  IF child.t = "string" THEN child.s
  ELSE IF child.t = "number" THEN ToString(child.n)
  ELSE "true"

\* C19: every entry of props.children is an element with a type; null,
\* undefined and false are not among them; every text element shows a string,
\* a number or true given as a child; every element given is an entry.
C19_ChildrenNormalized ==
  \A k \in 1..Len(lastElement) :
    LET given   == LeafOrder(lastElement[k].children, 1)
        entries == lastElement[k].element.props.children
        wrapped == {i \in 1..Len(given) :
                      given[i].t \in {"string", "number"}
                        \/ (given[i].t = "boolean" /\ given[i].b)}
    IN /\ \A i \in 1..Len(entries) : IsElement(entries[i])
       /\ \A i \in 1..Len(entries) :
            Shape(entries[i])[1] = TEXT_ELEMENT =>
              \E j \in wrapped : Shape(entries[i])[2] = TextOf(given[j])
       /\ \A j \in 1..Len(given) :
            given[j].t = "object" =>
              \E i \in 1..Len(entries) : Shape(entries[i])[1] = given[j].el.type

\* C20: props.children is the left-to-right sequence of the leaves of the
\* nested arrays given, without the dropped values, the others wrapped, and
\* holds no array.
C20_FlattensAnyDepth ==
  \A k \in 1..Len(lastElement) :
    LET given    == SelectSeq(LeafOrder(lastElement[k].children, 1), Kept)
        expected == [i \in 1..Len(given) |->
                       IF given[i].t = "object" THEN <<given[i].el.type, "">>
                       ELSE <<TEXT_ELEMENT, TextOf(given[i])>>]
    IN Shapes(lastElement[k].element.props.children) = expected

\* the fibers of the chain starting at f in depth-first pre-order: a fiber,
\* its subtree, then its next sibling
RECURSIVE PreOrder(_, _)
PreOrder(fs, f) ==
  IF f = 0 THEN <<>>
  ELSE <<f>> \o PreOrder(fs, fs[f].child) \o PreOrder(fs, fs[f].sibling)

\* the fibers performUnitOfWork was applied to by one cycle, in order
VisitedBy(cyc) ==
  LET units == SelectSeq(visited, LAMBDA u : u.cyc = cyc)
  IN [i \in 1..Len(units) |-> units[i].fiber]

\* C21: while a cycle traverses, the fibers performUnitOfWork was applied to
\* are the first fibers of the pre-order of the tree built so far, each
\* once, the next unit of work is the fiber that follows them in it, and
\* nextUnitOfWork is null exactly when the whole tree has been worked on.
C21_PreOrderTraversal ==
  (pc = "work" /\ wipRoot # 0) =>
    LET order == PreOrder(fibers, wipRoot)
        seen  == VisitedBy(cycle)
    IN /\ Len(seen) <= Len(order)
       /\ \A i \in 1..Len(seen) : seen[i] = order[i]
       /\ nextUnitOfWork # 0 =>
            Len(seen) < Len(order) /\ order[Len(seen) + 1] = nextUnitOfWork
       /\ nextUnitOfWork = 0 => seen = order

\* <div><Wrap/><a/><b/></div> traversed to the end: root, div, Wrap, c, its
\* text, a, b
C21_Witness ==
  /\ pc = "work" /\ wipRoot # 0 /\ nextUnitOfWork = 0
  /\ Len(VisitedBy(cycle)) = 7
  /\ fibers[VisitedBy(cycle)[3]].type = "Wrap"
  /\ fibers[VisitedBy(cycle)[5]].type = TEXT_ELEMENT
  /\ fibers[VisitedBy(cycle)[6]].type = "a"
  /\ cycle = 2

\* the elements updateFunctionComponent / updateHostComponent reconcile the
\* fiber's children against (none when the component body throws)
ElementsOf(fiber) ==
  IF IsFunctionComponent(fibers[fiber].type)
  THEN LET rs == Component(fibers[fiber].type, RenderState(fiber),
                           fibers[fiber].props)
       IN IF rs.threw THEN <<>> ELSE <<rs.out>>
  ELSE fibers[fiber].props.children

\* the old fiber at child index i of the position of a fiber
OldAt(fiber, i) ==
  IF fibers[fiber].alternate = 0 THEN 0
  ELSE Nth(fibers, fibers[fibers[fiber].alternate].child, i)

\* C22: in a step of the work loop, for every element of the fiber worked
\* on: with an old fiber of the same type at its index, the fiber produced
\* there is tagged UPDATE, has that old fiber as alternate, the element's
\* props, the old fiber's instance and the old fiber's hook sequence; with
\* no old fiber at its index it is tagged PLACEMENT, with alternate null, no
\* instance and no hooks.
C22_UpdateAndPlacementFibers ==
  [][(pc = "work" /\ nextUnitOfWork # 0) =>
       LET w   == nextUnitOfWork
           els == ElementsOf(w)
       IN \A i \in 1..Len(els) :
            LET old == OldAt(w, i)
                new == Nth(fibers', fibers'[w].child, i)
            IN /\ (old # 0 /\ els[i].type = fibers[old].type) =>
                    /\ new > Len(fibers)
                    /\ fibers'[new].effectTag = "UPDATE"
                    /\ fibers'[new].alternate = old
                    /\ fibers'[new].props = els[i].props
                    /\ fibers'[new].instance = fibers[old].instance
                    /\ fibers'[new].hooks = fibers[old].hooks
               /\ old = 0 =>
                    /\ new > Len(fibers)
                    /\ fibers'[new].effectTag = "PLACEMENT"
                    /\ fibers'[new].alternate = 0
                    /\ fibers'[new].props = els[i].props
                    /\ fibers'[new].instance = 0
                    /\ fibers'[new].hooks = <<>>]_vars

\* an App fiber made for new props that holds the five hook records of the
\* old one, a <p> fiber that took over the old instance with another count,
\* and an App fiber placed by a first render
C22_Witness ==
  /\ \E n \in 1..Len(fibers) :
       /\ fibers[n].type = "App" /\ fibers[n].effectTag = "UPDATE"
       /\ fibers[n].alternate # 0 /\ Len(fibers[n].hooks) = 5
       /\ fibers[n].hooks = fibers[fibers[n].alternate].hooks
       /\ fibers[n].props # fibers[fibers[n].alternate].props
  /\ \E n \in 1..Len(fibers) :
       /\ fibers[n].type = "p" /\ fibers[n].effectTag = "UPDATE"
       /\ fibers[n].alternate # 0 /\ fibers[n].instance # 0
       /\ fibers[n].instance = fibers[fibers[n].alternate].instance
       /\ fibers[n].props.v # fibers[fibers[n].alternate].props.v
  /\ \E n \in 1..Len(fibers) :
       /\ fibers[n].type = "App" /\ fibers[n].effectTag = "PLACEMENT"
       /\ fibers[n].alternate = 0 /\ fibers[n].instance = 0

\* the fibers of the running cycle whose children have been reconciled: those
\* the work loop has been applied to, but for a component whose body threw
Reconciled ==
  {f \in {visited[k].fiber : k \in {j \in 1..Len(visited) : visited[j].cyc = cycle}} :
     ~(cycle \in aborted /\ f = visited[Len(visited)].fiber)}

\* the elements a reconciled fiber's children were built from: the children
\* of a host fiber; a component has one, the element its body returned
BuiltFrom(f) ==
  IF IsFunctionComponent(fibers[f].type) THEN 1
  ELSE Len(fibers[f].props.children)

\* C23: the child/sibling chain of a reconciled fiber has exactly one fiber
\* per new element, the i-th with the type and props of the i-th element and
\* with the fiber as parent, each tagged UPDATE or PLACEMENT; below the root
\* of the running cycle there is no fiber tagged DELETION and no fiber that
\* existed before that root.
C23_ChainRebuilt ==
  /\ \A f \in Reconciled :
       /\ \A i \in 1..BuiltFrom(f) :
            LET new == Nth(fibers, fibers[f].child, i)
            IN /\ new # 0 /\ fibers[new].parent = f
               /\ fibers[new].effectTag \in {"UPDATE", "PLACEMENT"}
               /\ ~IsFunctionComponent(fibers[f].type) =>
                    /\ fibers[new].type = fibers[f].props.children[i].type
                    /\ fibers[new].props = fibers[f].props.children[i].props
       /\ Nth(fibers, fibers[f].child, BuiltFrom(f) + 1) = 0
  /\ \A r \in Reconciled :
       fibers[r].type = rootType =>
         \A n \in TreeFibers(fibers, r) :
           n >= r /\ fibers[n].effectTag # "DELETION"

\* a <div> with one child reconciled against an old chain of three, none of
\* the old fibers kept
C23_Witness ==
  \E f \in Reconciled :
    /\ fibers[f].type = "div" /\ fibers[f].alternate # 0
    /\ Len(fibers[f].props.children) = 1
    /\ Len(fibers[fibers[f].alternate].props.children) = 3
    /\ fibers[fibers[f].child].effectTag = "PLACEMENT"
    /\ Len(deletions) = 3

\* the index of fiber f in the sibling chain that starts at c (0: not in it)
RECURSIVE IndexIn(_, _, _)
IndexIn(fs, c, f) ==
  IF c = 0 THEN 0
  ELSE IF c = f THEN 1
  ELSE LET rest == IndexIn(fs, fs[c].sibling, f)
       IN IF rest = 0 THEN 0 ELSE rest + 1

\* the child index of a fiber under its parent
ChildIndex(f) == IndexIn(fibers, fibers[fibers[f].parent].child, f)

\* the fibers of the work-in-progress tree and of the current tree
LiveFibers == TreeFibers(fibers, wipRoot) \cup TreeFibers(fibers, currentRoot)

\* C24: the alternate of a fiber of the work-in-progress or current tree has
\* the fiber's type, its parent is the alternate of the fiber's parent and it
\* has the fiber's child index; the alternate of the work-in-progress root is
\* the current root, and the alternate of the current root is the root
\* committed before it (null for the first).
C24_AlternateSamePosition ==
  /\ wipRoot # 0 => fibers[wipRoot].alternate = currentRoot
  /\ currentRoot # 0 => fibers[currentRoot].alternate = prevRoot
  /\ \A f \in LiveFibers :
       LET a == fibers[f].alternate
       IN a # 0 =>
            /\ fibers[a].type = fibers[f].type
            /\ IF fibers[f].parent = 0 THEN fibers[a].parent = 0
               ELSE /\ fibers[a].parent = fibers[fibers[f].parent].alternate
                    /\ fibers[a].parent # 0
                    /\ ChildIndex(a) = ChildIndex(f) /\ ChildIndex(f) > 0

\* a third tree being built over two committed ones, its second text fiber
\* linked to the one at the same place
C24_Witness ==
  /\ wipRoot # 0 /\ currentRoot # 0 /\ prevRoot # 0 /\ pc = "work"
  /\ \E f \in TreeFibers(fibers, wipRoot) :
       /\ fibers[f].type = TEXT_ELEMENT /\ fibers[f].alternate # 0
       /\ ChildIndex(f) = 2
       /\ fibers[fibers[f].alternate].alternate # 0

\* the instance of the nearest fiber at or below f, going down the child
\* links, that has one (0: none)
RECURSIVE InstanceBelow(_)
InstanceBelow(f) ==
  IF f = 0 THEN 0
  ELSE IF fibers[f].instance # 0 THEN fibers[f].instance
  ELSE InstanceBelow(fibers[f].child)

\* the instance of the nearest fiber at or above f that has one (0: none)
RECURSIVE InstanceAbove(_)
InstanceAbove(f) ==
  IF f = 0 THEN 0
  ELSE IF fibers[f].instance # 0 THEN fibers[f].instance
  ELSE InstanceAbove(fibers[f].parent)

\* the instances of a fiber and of the fibers below it
SubtreeInstances(f) ==
  {fibers[g].instance : g \in {f} \cup TreeFibers(fibers, fibers[f].child)}
    \ {0}

\* a step that is commitRoot, and the adapter calls it makes
CommitStep == pc = "work" /\ pc' = "flush"
CommitCalls == SubSeq(log', Len(log) + 1, Len(log'))

\* the <<parentInstance, instance>> a deleted fiber is to be removed with
Removal(f) == <<InstanceAbove(fibers[f].parent), InstanceBelow(f)>>

\* C25: a step that starts a cycle empties the deletion list. The
\* removeChild calls of a commit are, in list order, one per listed fiber
\* whose subtree has a host instance: removeChild(instance of the nearest
\* ancestor that has one, instance of the nearest fiber at or below it that
\* has one); no other instance is removed, and no append or update call of
\* the commit concerns an instance of a deleted subtree.
C25_DeletionsCommitted ==
  [][/\ CycleStarts => deletions' = <<>>
     /\ CommitStep =>
          LET listed   == SelectSeq(deletions, LAMBDA f : InstanceBelow(f) # 0)
              removes  == SelectSeq(CommitCalls, LAMBDA e : e.op = "removeChild")
          IN /\ Len(removes) = Len(listed)
             /\ \A i \in 1..Len(listed) :
                  <<removes[i].x, removes[i].y>> = Removal(listed[i])
             /\ \A i \in 1..Len(CommitCalls) : \A k \in 1..Len(deletions) :
                  CommitCalls[i].op \in Mutations \ {"removeChild"} =>
                    Subject(CommitCalls[i]) \notin SubtreeInstances(deletions[k])
    ]_vars

\* a commit that removed three children of the <div>, one of them the
\* component Wrap (removed through its <c>, whose text is left alone), and
\* appended a new one
C25_Witness ==
  /\ pc = "flush" /\ Len(deletions) = 3
  /\ \E k \in 1..3 :
       /\ fibers[deletions[k]].type = "Wrap"
       /\ Cardinality(SubtreeInstances(deletions[k])) = 2
  /\ Calls("removeChild") = 3 /\ Calls("appendChild") = 1

\* the fibers of the tree being committed, in depth-first pre-order, that
\* are tagged PLACEMENT and have a host instance
Placed ==
  SelectSeq(PreOrder(fibers, fibers[wipRoot].child),
            LAMBDA f : fibers[f].effectTag = "PLACEMENT" /\ fibers[f].instance # 0)

\* C26: the appendChild calls of a commit are, in the pre-order of the
\* committed tree (a parent before its descendants, siblings in sibling
\* order), one per PLACEMENT fiber that has a host instance:
\* appendChild(instance of its nearest ancestor that has one, its instance);
\* no adapter call of the commit has a null instance as its subject.
C26_PlacementsAppended ==
  [][CommitStep =>
       LET appends == SelectSeq(CommitCalls, LAMBDA e : e.op = "appendChild")
       IN /\ Len(appends) = Len(Placed)
          /\ \A i \in 1..Len(Placed) :
               /\ appends[i].y = fibers[Placed[i]].instance
               /\ appends[i].x = InstanceAbove(fibers[Placed[i]].parent)
               /\ appends[i].x # 0
          /\ \A i \in 1..Len(CommitCalls) : Subject(CommitCalls[i]) # 0
    ]_vars

\* the first commit of <div><Wrap/><a/><b/></div>: div under the container,
\* then c under div (Wrap has no instance), its text under c, then a and b
\* under div
C26_Witness ==
  /\ pc = "flush" /\ cycle = 1 /\ Calls("appendChild") = 5
  /\ \E f \in TreeFibers(fibers, currentRoot) :
       /\ fibers[f].type = "Wrap" /\ fibers[f].instance = 0
       /\ fibers[f].sibling # 0 /\ fibers[fibers[f].sibling].sibling # 0
  /\ \E i \in 1..Len(log) :
       /\ i + 3 <= Len(log)
       /\ log[i].op = "appendChild" /\ log[i].x = Container
       /\ log[i + 1].op = "appendChild" /\ log[i + 1].x = log[i].y
       /\ log[i + 2].op = "appendChild" /\ log[i + 2].x = log[i + 1].y
       /\ log[i + 3].op = "appendChild" /\ log[i + 3].x = log[i].y

\* C27: the adapter calls of a commit end with its only finalizeContainer
\* call, made with the root container; no other step calls it; in the calls
\* of one cycle it comes after every structural call and before every
\* cleanup and effect body, which it always precedes; a cycle that an
\* exception left has none.
C27_FinalizeOncePerCommit ==
  /\ [](/\ \A i \in 1..Len(log) : \A j \in 1..Len(log) :
             (log[i].op = "finalizeContainer" /\ log[j].cyc = log[i].cyc) =>
               /\ log[j].op \in Mutations => j < i
               /\ log[j].op \in {"cleanup", "effect"} => i < j
               /\ log[j].op = "finalizeContainer" => i = j
        /\ \A j \in 1..Len(log) :
             log[j].op \in {"cleanup", "effect"} =>
               \E i \in 1..(j - 1) :
                 log[i].op = "finalizeContainer" /\ log[i].cyc = log[j].cyc
        /\ \A c \in aborted : CallsOf("finalizeContainer", c) = 0)
  /\ [][/\ CommitStep =>
             /\ Len(CommitCalls) > 0
             /\ CommitCalls[Len(CommitCalls)] =
                  Entry("finalizeContainer", cycle, Container, 0)
             /\ \A i \in 1..(Len(CommitCalls) - 1) :
                  CommitCalls[i].op \in Mutations
        /\ ~CommitStep =>
             \A i \in 1..Len(log') :
               log'[i].op = "finalizeContainer" =>
                 i <= Len(log) /\ log[i] = log'[i]
       ]_vars

\* a render whose body threw, then a render whose commit removes and
\* appends, finalizes, and runs an effect that starts a second cycle, which
\* finalizes after its own update calls
C27_Witness ==
  /\ aborted # {} /\ Calls("finalizeContainer") = 2
  /\ \E i, j, k, l, m \in 1..Len(log) :
       /\ i < j /\ j < k /\ k < l /\ l < m
       /\ log[i].op = "appendChild" /\ log[j].op = "finalizeContainer"
       /\ log[k].op = "effect" /\ log[i].cyc = log[j].cyc
       /\ log[j].cyc = log[k].cyc
       /\ log[l].op = "commitUpdate" /\ log[m].op = "finalizeContainer"
       /\ log[l].cyc = log[m].cyc /\ log[l].cyc > log[k].cyc

\* no rendered App has an effect body that calls a setter
NoSetterInEffects ==
  \A f \in 1..Len(fibers) :
    fibers[f].type = "App" => fibers[f].props.fx \in {"log", "boom"}

\* the fibers that hold hook record h at cursor position k
Holders(h, k) ==
  {f \in 1..Len(fibers) : Len(fibers[f].hooks) >= k /\ fibers[f].hooks[k] = h}

\* fiber o is an earlier fiber of the position of fiber n
RECURSIVE EarlierAt(_, _)
EarlierAt(o, n) ==
  IF n = 0 THEN FALSE
  ELSE fibers[n].alternate = o \/ EarlierAt(o, fibers[n].alternate)

\* C28: in runs in which no effect body calls a setter: a cleanup function is
\* not invoked twice; it is invoked immediately before the body of an effect
\* of the same component position and hook index as the effect that returned
\* it; when a call has returned, the record of an effect that was not queued
\* holds the cleanup of the record before it, and the record of an effect
\* whose body returned no function holds none.
C28_CleanupOnce ==
  NoSetterInEffects =>
    /\ \A i \in 1..Len(log) : \A j \in 1..Len(log) :
         (log[i].op = "cleanup" /\ log[j].op = "cleanup" /\ log[i].y = log[j].y)
           => i = j
    /\ \A i \in 1..Len(log) :
         log[i].op = "cleanup" =>
           /\ i < Len(log) /\ log[i + 1].op = "effect" /\ log[i + 1].x = log[i].x
           /\ \E k \in 1..5 : \E n \in Holders(log[i].x, k) :
                \E o \in Holders(log[i].y, k) : EarlierAt(o, n)
    /\ (pc = "idle" /\ result = "ok" /\ CommittedTwice) =>
         \A pr \in SamePosition(fibers, prevRoot, currentRoot) :
           fibers[pr[2]].type = "App" =>
             \A k \in 4..5 :
               LET old == HookOf(pr[1], k)  new == HookOf(pr[2], k)
               IN /\ new.qcycle = 0 => new.cleanup = old.cleanup
                  /\ (new.runs > 0 /\ new.effect.ret # "function") => new.cleanup = 0

\* a step of the work loop that evaluates an App component
EvaluatesApp ==
  /\ pc = "work" /\ nextUnitOfWork # 0
  /\ fibers[nextUnitOfWork].type = "App"

\* C29: for every state cell, the actions passed to its setters, folded over
\* the initial value 0 in call order, give the cell's state with the actions
\* still queued applied to it: no action is lost, repeated or reordered; and
\* right after an evaluation of the component that reads the cell its queue
\* is empty and its state is the fold of all actions.
C29_ActionsAppliedOnce ==
  /\ [](\A h \in StateCells :
          ApplyQueue(cells[h].state, cells[h].queue, 1)
            = FoldActions(cells[h].acts, 0))
  /\ [][EvaluatesApp =>
          LET h == fibers'[nextUnitOfWork].hooks[1]
          IN /\ cells'[h].kind = "state" /\ cells'[h].queue = <<>>
             /\ cells'[h].state = FoldActions(cells'[h].acts, 0)]_vars

\* the third evaluation of a mounted App has just folded c => c + 1 and
\* c => 2 * c, passed to the setter in that order
C29_Witness ==
  /\ pc = "work" /\ cycle = 3 /\ wipFiber # 0
  /\ fibers[wipFiber].type = "App" /\ wipFiber > wipRoot /\ wipRoot # 0
  /\ LET h == fibers[wipFiber].hooks[1]
     IN /\ cells[h].acts = <<[fn |-> "inc", arg |-> 0], [fn |-> "dbl", arg |-> 0]>>
        /\ cells[h].queue = <<>> /\ cells[h].state = 2

\* the number of clicks made so far: every click passes one c => c + 1 to a
\* setter of the counter
Clicks ==
  LET RECURSIVE Sum(_)
      Sum(h) == IF h = 0 THEN 0
                ELSE (IF cells[h].kind = "state" THEN Len(cells[h].acts) ELSE 0)
                     + Sum(h - 1)
  IN Sum(Len(cells))

\* C30: when a call has returned, the committed Counter shows as many
\* increments as there were clicks, also when the clicks reach a setter made
\* by an earlier render than the latest; and a Counter that stays mounted
\* holds the same useState hook object as in the commit before.
C30_StaleSetterNotLost ==
  (pc = "idle" /\ Committed) =>
    /\ \A n \in MountedCounters :
         /\ cells[fibers[n].hooks[1]].state = Clicks
         /\ fibers[fibers[n].child].props.v = Clicks
    /\ CommittedTwice =>
         \A pr \in SamePosition(fibers, prevRoot, currentRoot) :
           fibers[pr[2]].type = "Counter" =>
             fibers[pr[2]].hooks[1] = fibers[pr[1]].hooks[1]

\* the hook primitives a component body calls, in call order, by the kind of
\* record each one makes (useCallback makes a memo record)
HookKinds(f) ==
  IF f.type = "App" THEN <<"state", "ref", "ref", "effect", "effect">>
  ELSE IF f.type = "Memo" THEN <<"memo", "memo", "effect">>
  ELSE IF f.type = "Counter" THEN <<"state", "memo">>
  ELSE IF f.type = "Sync" THEN <<"state">>
  ELSE IF f.type = "Swap" THEN <<IF f.props.v = 0 THEN "state" ELSE "ref">>
  ELSE <<>>

\* a step of the work loop that evaluates a component
EvaluatesComponent ==
  /\ pc = "work" /\ nextUnitOfWork # 0
  /\ IsFunctionComponent(fibers[nextUnitOfWork].type)

\* the hook sequence of the alternate of a fiber
AlternateHooks(f) ==
  IF fibers[f].alternate = 0 THEN <<>> ELSE fibers[fibers[f].alternate].hooks

\* C31: the cursor always equals the length of the hook sequence of the
\* fiber last evaluated. An evaluation leaves on its fiber one record per
\* hook call it made, in call order, whatever the fiber held before: at
\* cursor i the alternate's own record when it is a state or ref record and
\* the alternate has one there, a record made by this call otherwise, which
\* for an effect carries the cleanup of the alternate's record at i.
C31_CursorPerHookCall ==
  /\ [](wipFiber # 0 => hookIndex = Len(fibers[wipFiber].hooks))
  /\ [][EvaluatesComponent =>
          LET w     == nextUnitOfWork
              kinds == HookKinds(fibers[w])
              hooks == fibers'[w].hooks
              old   == AlternateHooks(w)
          IN /\ wipFiber' = w /\ hookIndex' = Len(kinds)
             /\ Len(hooks) = Len(kinds)
             /\ \A i \in 1..Len(hooks) :
                  /\ cells'[hooks[i]].kind = kinds[i]
                  /\ \A j \in 1..Len(hooks) : hooks[i] = hooks[j] => i = j
                  /\ IF kinds[i] \in {"state", "ref"} /\ i <= Len(old)
                     THEN hooks[i] = old[i]
                     ELSE hooks[i] > Len(cells)
                  /\ (kinds[i] = "effect" /\ i <= Len(old)) =>
                       cells'[hooks[i]].cleanup = cells[old[i]].cleanup]_vars

\* the second evaluation of App: five records again, three of them the old
\* fiber's, the fifth carrying a cleanup
C31_Witness ==
  /\ wipFiber # 0 /\ fibers[wipFiber].type = "App" /\ hookIndex = 5
  /\ fibers[wipFiber].alternate # 0
  /\ Len(AlternateHooks(wipFiber)) = 5
  /\ fibers[wipFiber].hooks[3] = AlternateHooks(wipFiber)[3]
  /\ fibers[wipFiber].hooks[5] # AlternateHooks(wipFiber)[5]
  /\ cells[fibers[wipFiber].hooks[5]].cleanup # 0

\* ------------------------------------------------------ two renderers
\* the bindings of renderer r, whichever renderer is being used
RendererState(r) == IF active = r THEN Bindings ELSE other

\* C32: two renderers made by separate createRenderer calls share no mutable
\* state: a render or setter call on one, and every step of the cycles it
\* starts, leaves the other's currentRoot, wipRoot, nextUnitOfWork, deletions,
\* pendingEffects, hook cursor, fibers and hook cells as they were and starts
\* no cycle in it; turning from one renderer to the other changes neither.
C32_RenderersIsolated ==
  [][\A r \in 1..2 :
       (active # r \/ active' # r) => RendererState(r)' = RendererState(r)]_vars

\* the second renderer has rendered and its setter has started a cycle while
\* the first holds a committed tree with a state cell of its own
C32_Witness ==
  /\ active = 2 /\ pc = "idle" /\ cycle >= 2 /\ currentRoot # 0
  /\ other.currentRoot # 0 /\ other.cycle = 1
  /\ \E c \in 1..Len(other.cells) : other.cells[c].kind = "state"
  /\ \E i \in 1..Len(log) : log[i].op = "setState" /\ log[i].cyc >= 2

\* ------------------------------------------- createElement and its arguments
\* the element, props object and children array a createElement call returned
Returned(h, c) ==
  LET p == h[c.element].props.id
  IN <<c.element, p, h[p].children.id>>

\* C33: createElement never mutates its arguments: every object that existed
\* before the call (the props object given, the arrays given as children, the
\* elements among them) has the same keys and values after it, and the returned
\* element, its props object and its children array are three new objects,
\* distinct from every object that existed before.
C33_ArgumentsKept ==
  [][call' # call =>
       /\ \A id \in 1..Len(heap) : heap'[id] = heap[id]
       /\ LET r == Returned(heap', call'[1])
          IN /\ \A i \in 1..3 : r[i] > Len(heap)
             /\ r[1] # r[2] /\ r[2] # r[3] /\ r[1] # r[3]
             /\ heap'[r[1]].kind = "element" /\ heap'[r[2]].kind = "props"
             /\ heap'[r[3]].kind = "array"]_vars

\* a call given a props object that has a children key, an array child and a
\* string child
C33_Witness ==
  /\ call # <<>> /\ call[1].props # 0
  /\ heap[call[1].props].children # Undef
  /\ \E i, j \in 1..Len(call[1].children) :
       /\ IsArray(heap, call[1].children[i])
       /\ call[1].children[j] = Str("x")

\* ------------------------------------------------------ idle on return
\* control is back in the application after a render or setter call that
\* completed without an exception
ReturnedNormally == pc = "idle" /\ calls > 0 /\ result = "ok"

\* C34: whenever a render or setter call has returned without an exception,
\* nested cycles started by effects included, the renderer is idle: wipRoot is
\* null, nextUnitOfWork is null, pendingEffects is empty, and currentRoot is
\* the root built by the last cycle that ran.
C34_IdleOnReturn ==
  ReturnedNormally =>
    /\ wipRoot = 0 /\ nextUnitOfWork = 0 /\ pendingEffects = <<>>
    /\ cycle > 0 => currentRoot = LatestRoot

\* ------------------------------------------- hooks without a dependency list
\* the fiber being evaluated is a Memo given no dependency list
EvaluatesNoDeps ==
  /\ EvaluatesComponent /\ fibers[nextUnitOfWork].type = "Memo"
  /\ fibers[nextUnitOfWork].props.v = Undef

\* the committed Memo fibers rendered without a dependency list
NoDepsMemos ==
  {f \in TreeFibers(fibers, currentRoot) :
     fibers[f].type = "Memo" /\ fibers[f].props.v = Undef}

\* the cleanup the effect record of fiber f copied from the record before it
CarriedCleanup(f) ==
  IF fibers[f].alternate = 0 THEN 0
  ELSE cells[fibers[fibers[f].alternate].hooks[3]].cleanup

\* C35: useMemo, useCallback and useEffect called without a dependency list
\* count as changed on every evaluation, first or later: the factory is invoked
\* and its new value stored, the effect record is put on pendingEffects, and
\* the stored record holds an empty list; when the call has returned, the
\* effect body was invoked in that cycle, after the cleanup carried over from
\* the record before it if there was one.
C35_NoDepsAlwaysChanged ==
  /\ [][EvaluatesNoDeps =>
          LET hooks == fibers'[nextUnitOfWork].hooks
          IN /\ \A i \in 1..2 : /\ cells'[hooks[i]].runs = 1
                                /\ cells'[hooks[i]].value = cycle
             /\ Has(pendingEffects', hooks[3])
             /\ \A i \in 1..3 : cells'[hooks[i]].deps = <<>>]_vars
  /\ [](Committed /\ pc = "idle" =>
          \A f \in NoDepsMemos :
            LET hook == fibers[f].hooks[3]
                carried == CarriedCleanup(f)
            IN \E i \in 1..Len(log) :
                 /\ log[i] = Entry("effect", cycle, hook, carried)
                 /\ carried # 0 =>
                      i > 1 /\ log[i - 1] = Entry("cleanup", cycle, hook, carried))

\* a Memo rendered twice without a dependency list: the record of the first
\* render holds an empty list and a cleanup, and the second render has run the
\* factory and the effect again
C35_Witness ==
  /\ Committed /\ pc = "idle" /\ cycle >= 2
  /\ \E f \in NoDepsMemos :
       /\ fibers[f].alternate # 0
       /\ fibers[fibers[f].alternate].props.v = Undef
       /\ cells[fibers[fibers[f].alternate].hooks[1]].deps = <<>>
       /\ CarriedCleanup(f) # 0
       /\ cells[fibers[f].hooks[1]].runs = 1
       /\ Calls("cleanup") = 1

\* ------------------------------------------------- cleanups and deletion
\* the component fibers a committed cycle deleted, with the component fibers
\* below them: marked by reconcileChildren and no longer in the current tree
DeletedComponents ==
  LET marked == {d \in 1..Len(fibers) :
                   /\ fibers[d].effectTag = "DELETION"
                   /\ d \notin TreeFibers(fibers, currentRoot)
                   /\ d \notin TreeFibers(fibers, wipRoot)}
  IN {f \in UNION {{d} \cup TreeFibers(fibers, fibers[d].child) : d \in marked} :
        IsFunctionComponent(fibers[f].type)}

\* the cleanup functions stored in the effect records of fiber f
StoredCleanups(f) ==
  {cells[fibers[f].hooks[i]].cleanup :
     i \in {j \in 1..Len(fibers[f].hooks) : cells[fibers[f].hooks[j]].kind = "effect"}}
    \ {0}

\* C36: a cleanup is invoked only by flushEffects, immediately before the
\* body of the effect record that carries it; once a component fiber is
\* deleted, none of the cleanups stored in its effect records or in those of
\* the components below it is invoked, in the deleting cycle or a later one.
C36_NoCleanupOnDeletion ==
  /\ \A i \in 1..Len(log) :
       log[i].op = "cleanup" =>
         /\ i < Len(log)
         /\ log[i + 1] = Entry("effect", log[i].cyc, log[i].x, log[i].y)
  /\ \A f \in DeletedComponents :
       \A i \in 1..Len(log) :
         (log[i].op = "cleanup" /\ log[i].cyc = cycle) =>
           log[i].y \notin StoredCleanups(f)

\* ---------------------------------------- hook state by position and type
\* the fiber being evaluated is an App or Memo component
EvaluatesHooked ==
  EvaluatesComponent /\ fibers[nextUnitOfWork].type \in {"App", "Memo"}

\* the state a useState record holds once its queue is folded into it
Folded(c) == ApplyQueue(cells[c].state, cells[c].queue, 1)

\* hooks i of the evaluated fiber w reads the record old of the fiber that was
\* at the same place before
ReadsPrevious(w, i, new, old) ==
  LET kind == cells'[new].kind
  IN IF kind = "state"
     THEN new = old /\ cells'[new].state = Folded(old)
     ELSE IF kind = "ref"
     THEN /\ new = old
          /\ cells'[new].current = cells[old].current + (IF i = 2 THEN 1 ELSE 0)
     ELSE IF kind = "memo"
     THEN \/ cells'[new].runs = 1
          \/ cells'[new].value = cells[old].value /\ cells'[new].deps = cells[old].deps
     ELSE cells'[new].cleanup = cells[old].cleanup

\* hook record new of a newly placed fiber holds initial values only
StartsFresh(i, new) ==
  LET c == cells'[new]
  IN /\ new > Len(cells)
     /\ c.state = 0 /\ c.queue = <<>> /\ c.acts = <<>>
     /\ c.current = (IF c.kind = "ref" /\ i = 2 THEN 1 ELSE 0)
     /\ c.cleanup = 0
     /\ c.kind = "memo" => c.runs = 1 /\ c.value = cycle

\* C37: hook state follows tree position and type. A component fiber that has
\* an alternate (same type at the same position of the current tree) is an
\* UPDATE fiber and each of its hook calls reads the alternate's record at the
\* same cursor: the same state record with its queue folded in, the same ref
\* record, the previous memo value unless recomputed, the previous cleanup. A
\* component fiber without an alternate is a PLACEMENT fiber and all its
\* records are new and hold initial values, whatever records fibers of the
\* same type at other positions held before.
C37_StateByPosition ==
  [][EvaluatesHooked =>
       LET w     == nextUnitOfWork
           a     == fibers[w].alternate
           hooks == fibers'[w].hooks
       IN IF a # 0
          THEN /\ fibers[w].effectTag = "UPDATE"
               /\ fibers[a].type = fibers[w].type
               /\ a \in TreeFibers(fibers, currentRoot)
               /\ Len(hooks) = Len(fibers[a].hooks)
               /\ \A i \in 1..Len(hooks) :
                    ReadsPrevious(w, i, hooks[i], fibers[a].hooks[i])
          ELSE /\ fibers[w].effectTag = "PLACEMENT"
               /\ \A i \in 1..Len(hooks) : StartsFresh(i, hooks[i])]_vars

\* an App placed under a <div> has been evaluated with state 0 in new records
\* while the records of an App that was at another position hold state 1
C37_Witness ==
  /\ wipFiber # 0 /\ fibers[wipFiber].type = "App"
  /\ fibers[wipFiber].alternate = 0 /\ Len(fibers[wipFiber].hooks) = 5
  /\ fibers[fibers[wipFiber].parent].type = "div"
  /\ cells[fibers[wipFiber].hooks[1]].state = 0
  /\ \E f \in 1..Len(fibers) :
       /\ fibers[f].type = "App" /\ f < wipFiber /\ Len(fibers[f].hooks) = 5
       /\ fibers[f].parent # 0 /\ fibers[fibers[f].parent].type = rootType
       /\ cells[fibers[f].hooks[1]].state = 1
       /\ fibers[f].hooks[1] # fibers[wipFiber].hooks[1]

\* ------------------------------------------------------ canvas renderer
\* the instances finalizeContainer's drawNode reaches from instance inst
RECURSIVE Drawn(_, _)
Drawn(h, inst) ==
  UNION {{h[inst][i]} \cup Drawn(h, h[inst][i]) : i \in 1..Len(h[inst])}

\* the host instances of the host fibers of the tree under root
TreeInstances(root) ==
  {fibers[f].instance :
     f \in {g \in TreeFibers(fibers, fibers[root].child) :
              ~IsFunctionComponent(fibers[g].type)}} \ {0}

\* C38: canvas renderer: once a render(element, canvas) call, the first or a
\* later one, has committed, the root instance it passed to finalizeContainer
\* holds, directly or below its children, the host instance of every host
\* fiber of the committed tree.
C38_RootInstanceHoldsTree ==
  Committed =>
    \A i \in 1..Len(log) :
      (log[i].op = "finalizeContainer" /\ log[i].cyc = cycle) =>
        TreeInstances(currentRoot) \subseteq Drawn(host, log[i].x)

====
